---- MODULE Spec2Model ----
\* Notion workspace scripts: the paginated block-tree walk (getAllBlocksFromPage),
\* the checkbox->bullet and quote->paragraph converters with their dry runs,
\* and the find-and-replace text substitution (searchAndReplaceInRichText).
EXTENDS Integers, Sequences, FiniteSets, TLC

VARIABLES
    world,      \* the provider's workspace: blocks, their children, text, colour
    world0,     \* the workspace as it was when the session started
    batch,      \* how many items the provider puts in one response (<= page_size)
    failBudget, \* provider calls that may still throw
    calls,      \* provider calls issued by the running command, in order
    mode,       \* which converter runs: "checkbox" or "quote"
    plan,       \* the commands of the session, in order
    run,        \* index into plan of the running command
    pc,         \* position of the running command
    pages,      \* getAllPages: the pages collected so far / being iterated
    srch,       \* getAllPages: [hasMore, cursor]
    pageIdx,    \* index into pages of the page being processed
    stack,      \* converter: the walk's call frames (page loop + processChildBlocks)
    cnt,        \* converter: totalCheckboxes, convertedCheckboxes, processedPages, ...
    errors,     \* converter: the errors list
    results,    \* what each finished command returned, with its call log
    fstack,     \* getAllBlocksFromPage: call frames
    fetched,    \* getAllBlocksFromPage: the returned block list
    froot,      \* getAllBlocksFromPage: the container it was called on
    rin,        \* searchAndReplaceInRichText: [richText, searchText, replaceText]
    rout,       \* searchAndReplaceInRichText: [modified, updatedRichText]
    sp,         \* splitTextIntoChunks: its arguments and locals
    wr,         \* the storage writers: payload, loop position, stored fields
    wf          \* the text-to-speech batch runs: pages, counters, requests

vars == <<world, world0, batch, failBudget, calls, mode, plan, run, pc, pages, srch,
          pageIdx, stack, cnt, errors, results, fstack, fetched, froot, rin, rout,
          sp, wr, wf>>

provVars == <<world, world0, batch>>
convVars == <<mode, plan, run, pages, srch, pageIdx, stack, cnt, errors, results>>
fetchVars == <<fstack, fetched, froot>>
replVars == <<rin, rout>>
jobVars == <<sp, wr, wf>>

\* ---------------------------------------------------------------- bounds

\* The provider's page size in the model (the scripts ask for page_size 100;
\* sibling lists of the model hold at most four blocks).
PageSize == 2
\* Provider calls that may throw in one session.
MaxFail == 1

\* Longest string in a span field, and longest search or replacement text, that
\* the text-substitution specification draws.
MaxStrLen == 3
MaxPatLen == 2

\* The storage writers, scaled to payloads of a few characters: MAX_FIELD_SIZE
\* stands for the 100000 characters of one Content64 field, SpanSize for the 2000
\* characters of one text span, SmallSpanSize and SmallFieldCap for the 1000 and
\* the 50000 characters the Content64 writer uses from field index MagicIndex
\* (12 in the code) on; MaxFields is the most fields a payload of the model fills,
\* MaxWriteFail the page updates that may throw in one call of a writer.
MAX_FIELD_SIZE == 4
SpanSize == 2
SmallSpanSize == 1
SmallFieldCap == 2
MagicIndex == 2
MaxFields == 3
MaxWriteFail == 4

\* splitTextIntoChunks, scaled to texts of a few characters: MaxTextLen is the
\* longest text, MaxChunk the largest maxLength, SentenceWindow stands for the
\* 1000 characters before the limit in which a sentence end is looked for and
\* WideWindow for the 2000 characters of the second search.
MaxTextLen == 5
MaxChunk == 3
SentenceWindow == 2
WideWindow == 3
NumBlogPages == 2
MaxDepth == 6

\* `const MAX_RETRIES = 3`
MAX_RETRIES == 3

\* `let cursor = undefined`: no start_cursor (block ids start at 1).
NoCursor == 0

\* ---------------------------------------------------------------- helpers

Min(a, b) == IF a < b THEN a ELSE b
IsPrefix(p, s) == Len(p) <= Len(s) /\ SubSeq(s, 1, Len(p)) = p

Range(s) == {s[i] : i \in 1..Len(s)}

\* 0 when x does not occur in s
IndexOf(s, x) == IF x \in Range(s) THEN CHOOSE i \in 1..Len(s) : s[i] = x ELSE 0



\* ---------------------------------------------------------------- rich text

\* A rich-text span. Strings are sequences of characters; an absent string
\* field is the empty string (the code only tests these fields for truthiness).
TextSpan(c) ==
    [type |-> "text", content |-> c, url |-> <<>>, href |-> <<>>, plain_text |-> c]

\* ---------------------------------------------------------------- workspace

SourceType(m) == IF m = "checkbox" THEN "to_do" ELSE "quote"
DestType(m) == IF m = "checkbox" THEN "bulleted_list_item" ELSE "paragraph"
OtherSource(m) == IF m = "checkbox" THEN "quote" ELSE "to_do"

\* Workspaces of the model. Block i has type type[i] and children kids[i];
\* "S" stands for the running converter's source type, "O" for the other
\* converter's source type. pages is the order in which search returns pages;
\* a sub-page is a child_page block whose children are the sub-page's content.
RawWorlds == <<
    \* 1: one page, sources at depth 1, 2 and 3
    [pages |-> <<1>>,
     type |-> <<"page", "S", "toggle", "paragraph", "S", "O", "S">>,
     kids |-> << <<2, 3, 4>>, <<>>, <<5, 6>>, <<>>, <<>>, <<7>>, <<>> >>],
    \* 2: sources that have children themselves, top-level and nested
    [pages |-> <<1>>,
     type |-> <<"page", "S", "toggle", "S", "S", "paragraph">>,
     kids |-> << <<2, 3>>, <<4>>, <<5>>, <<>>, <<6>>, <<>> >>],
    \* 3: a page with a sub-page; search returns the parent first
    [pages |-> <<1, 3>>,
     type |-> <<"page", "S", "child_page", "S", "paragraph">>,
     kids |-> << <<2, 3>>, <<>>, <<4, 5>>, <<>>, <<>> >>],
    \* 4: the same, search returns the sub-page first
    [pages |-> <<3, 1>>,
     type |-> <<"page", "S", "child_page", "S", "paragraph">>,
     kids |-> << <<2, 3>>, <<>>, <<4, 5>>, <<>>, <<>> >>],
    \* 5: two pages, one with a long sibling list of sources, one empty
    [pages |-> <<1, 2>>,
     type |-> <<"page", "page", "S", "S", "O", "S">>,
     kids |-> << <<3, 4, 5, 6>>, <<>>, <<>>, <<>>, <<>>, <<>> >>],
    \* 6: a linked database, a sub-page and nesting three deep, without any source
    [pages |-> <<1, 8>>,
     type |-> <<"page", "child_database", "toggle", "paragraph", "toggle", "O", "paragraph",
               "child_page", "paragraph", "paragraph">>,
     kids |-> << <<2, 3, 8, 10>>, <<4>>, <<5, 7>>, <<>>, <<6>>, <<>>, <<>>,
                 <<9>>, <<>>, <<>> >>]
>>

\* Workspaces the provider is not expected to hand out: a block is its own
\* descendant.
CyclicWorlds == <<
    \* a toggle below the page holds a toggle that holds the first one again
    [pages |-> <<1>>,
     type |-> <<"page", "toggle", "paragraph", "toggle">>,
     kids |-> << <<2, 3>>, <<4>>, <<>>, <<2>> >>],
    \* the cycle passes through a sub-page
    [pages |-> <<1>>,
     type |-> <<"page", "toggle", "child_page", "paragraph">>,
     kids |-> << <<2>>, <<3, 4>>, <<2>>, <<>> >>],
    \* the page is a child of its own child
    [pages |-> <<1>>,
     type |-> <<"page", "toggle">>,
     kids |-> << <<2>>, <<1>> >>]
>>

\* The text and colour a block of the model carries, fixed by its id.
TextOf(i) ==
    IF i % 3 = 0 THEN <<>>
    ELSE IF i % 3 = 1 THEN <<TextSpan(<<"a", "b">>)>>
    ELSE <<TextSpan(<<"a">>), TextSpan(<<"b", "a">>)>>

\* "none": the block has no colour field
ColorOf(i) == IF i % 3 = 0 THEN "red" ELSE IF i % 3 = 1 THEN "none" ELSE "default"

ParentIn(kids, i) ==
    IF \E p \in 1..Len(kids) : i \in Range(kids[p])
    THEN CHOOSE p \in 1..Len(kids) : i \in Range(kids[p])
    ELSE NoCursor

MkWorld(raw, m) ==
    [pages  |-> raw.pages,
     type   |-> [i \in 1..Len(raw.type) |->
                   IF raw.type[i] = "S" THEN SourceType(m)
                   ELSE IF raw.type[i] = "O" THEN OtherSource(m)
                   ELSE raw.type[i]],
     kids   |-> raw.kids,
     parent |-> [i \in 1..Len(raw.type) |-> ParentIn(raw.kids, i)],
     text   |-> [i \in 1..Len(raw.type) |-> TextOf(i)],
     color  |-> [i \in 1..Len(raw.type) |-> ColorOf(i)],
     dead   |-> {}]

RECURSIVE Descendants(_, _)
Descendants(w, i) ==
    Range(w.kids[i]) \cup UNION {Descendants(w, k) : k \in Range(w.kids[i])}

\* ---------------------------------------------------------------- provider

\* The block record a listing returns for block i.
BlockRecord(w, i) ==
    [id |-> i, type |-> w.type[i], rich_text |-> w.text[i], color |-> w.color[i],
     has_children |-> w.kids[i] # <<>>]

\* notion.blocks.children.list({block_id, start_cursor, page_size}): up to k
\* children of blockId starting at the block the cursor names.
ChildrenList(w, blockId, cursor, k) ==
    LET ks    == w.kids[blockId]
        start == IF cursor = NoCursor THEN 1 ELSE IndexOf(ks, cursor)
        stop  == IF start = 0 THEN 0 ELSE Min(start + k - 1, Len(ks))
        n     == IF start = 0 THEN 0 ELSE stop - start + 1
    IN  [results     |-> [j \in 1..n |-> BlockRecord(w, ks[start + j - 1])],
         has_more    |-> start # 0 /\ stop < Len(ks),
         next_cursor |-> IF start # 0 /\ stop < Len(ks) THEN ks[stop + 1] ELSE NoCursor]

\* notion.blocks.children.append({block_id, children: [child], after}) is
\* accepted when block_id is not in the trash and `after` is one of its children.
AppendAccepted(w, blockId, after) ==
    blockId \notin w.dead /\ after \in Range(w.kids[blockId])

ChildrenAppend(w, blockId, after, child) ==
    LET new == Len(w.type) + 1
        ks  == w.kids[blockId]
        at  == IndexOf(ks, after)
    IN  [w EXCEPT !.type   = Append(@, child.type),
                  !.kids   = Append([@ EXCEPT ![blockId] =
                                 SubSeq(ks, 1, at) \o <<new>> \o SubSeq(ks, at + 1, Len(ks))],
                                 <<>>),
                  !.parent = Append(@, blockId),
                  !.text   = Append(@, child.rich_text),
                  !.color  = Append(@, child.color)]

\* notion.blocks.delete({block_id}): the block leaves its parent's children and
\* goes to the trash together with everything below it.
BlockDelete(w, blockId) ==
    LET p == w.parent[blockId]
    IN  [w EXCEPT !.kids = [@ EXCEPT ![p] = SelectSeq(@, LAMBDA x : x # blockId)],
                  !.dead = @ \cup {blockId} \cup Descendants(w, blockId)]

\* notion.search({filter: page, start_cursor, page_size}): the pages not in the trash
LivePages(w) == SelectSeq(w.pages, LAMBDA p : p \notin w.dead)

Search(w, cursor, k) ==
    LET ps    == LivePages(w)
        start == IF cursor = NoCursor THEN 1 ELSE IndexOf(ps, cursor)
        stop  == IF start = 0 THEN 0 ELSE Min(start + k - 1, Len(ps))
        n     == IF start = 0 THEN 0 ELSE stop - start + 1
    IN  [results     |-> [j \in 1..n |-> ps[start + j - 1]],
         has_more    |-> start # 0 /\ stop < Len(ps),
         next_cursor |-> IF start # 0 /\ stop < Len(ps) THEN ps[stop + 1] ELSE NoCursor]

\* Outcomes of a provider call: it answers, or (while the budget lasts) throws
\* an error whose message names an unsupported block ("ai_block"), or another.
ListOutcomes(w, blockId) ==
    {"ok"} \cup (IF failBudget > 0 THEN {"ai_block", "error"} ELSE {})
           \cup (IF blockId \in w.dead THEN {"error"} ELSE {})

WriteOutcomes == {"ok"} \cup (IF failBudget > 0 THEN {"error"} ELSE {})

Spend(outcome) == IF outcome = "ok" \/ failBudget = 0 THEN failBudget ELSE failBudget - 1

ListCall(blockId, cursor, outcome) ==
    [op |-> "list", block_id |-> blockId, cursor |-> cursor, ok |-> outcome = "ok",
     outcome |-> outcome]

\* ------------------------------------------------- getAllBlocksFromPage

Modes == {"checkbox", "quote"}

\* Values of the variables a specification does not use.
IdleConv ==
    /\ plan = <<>> /\ run = 0 /\ pages = <<>>
    /\ srch = [hasMore |-> FALSE, cursor |-> NoCursor]
    /\ pageIdx = 0 /\ stack = <<>> /\ cnt = <<>> /\ errors = <<>> /\ results = <<>>
IdleFetch == fstack = <<>> /\ fetched = <<>> /\ froot = NoCursor
IdleRepl == rin = <<>> /\ rout = <<>>
IdleSplit == sp = <<>>
IdleWrite == wr = <<>>
IdleFlow == wf = <<>>
IdleJobs == IdleSplit /\ IdleWrite /\ IdleFlow

\* `const blocks = []; let hasMore = true; let cursor = undefined;`
FetchFrame(pageId) ==
    [pageId |-> pageId, blocks |-> <<>>, hasMore |-> TRUE, cursor |-> NoCursor,
     results |-> <<>>, i |-> 1]

\* the fetcher descends into a block that has children, unless it is a sub-page
\* or a linked database
DescendsIntoAny(block) == block.has_children
DescendsNowhere(block) == FALSE
Descends(block) ==
    block.has_children /\ block.type # "child_page" /\ block.type # "child_database"

\* `hasMore = response.has_more`
hasMoreAlways(response) == TRUE
hasMoreAfter(response) == response.has_more

\* a listing call in the log together with what the provider answered
ListReply(call, response) ==
    call @@ [results |-> [j \in 1..Len(response.results) |-> response.results[j].id],
             has_more |-> response.has_more, next_cursor |-> response.next_cursor]

FTop == fstack[Len(fstack)]
FSetTop(f) == [fstack EXCEPT ![Len(fstack)] = f]

InitFetch ==
    /\ mode \in Modes
    /\ \E n \in 1..Len(RawWorlds) : world = MkWorld(RawWorlds[n], mode)
    /\ world0 = world
    /\ batch = PageSize
    /\ failBudget \in 0..MaxFail
    /\ calls = <<>>
    /\ pc = "fetch"
    /\ froot \in 1..Len(world.type)
    /\ fstack = <<FetchFrame(froot)>>
    /\ fetched = <<>>
    /\ IdleConv /\ IdleRepl /\ IdleJobs

\* `while (hasMore) { response = await notion.blocks.children.list(...)`: the
\* response's has_more and next_cursor are kept in the frame at once; the code
\* assigns them after the for loop, and nothing reads them in between.
FetchList ==
    /\ pc = "fetch" /\ fstack # <<>>
    /\ FTop.i > Len(FTop.results) /\ FTop.hasMore
    /\ \E k \in 1..PageSize :
         LET r == ChildrenList(world, FTop.pageId, FTop.cursor, k)
         IN  /\ fstack' = FSetTop([FTop EXCEPT !.results = r.results, !.i = 1,
                                                !.hasMore = hasMoreAfter(r),
                                                !.cursor = r.next_cursor])
             /\ calls' = Append(calls,
                                ListReply(ListCall(FTop.pageId, FTop.cursor, "ok"), r))
    /\ UNCHANGED <<provVars, failBudget, pc, fetched, froot, convVars, replVars,
                   jobVars>>

\* the frame on top returns its blocks: to the caller's `blocks.push(...childBlocks)`,
\* or as the result of the outermost call
FetchPop(blocks) ==
    IF Len(fstack) = 1
    THEN /\ fstack' = <<>>
         /\ fetched' = blocks
         /\ pc' = "fetched"
    ELSE /\ fstack' = [SubSeq(fstack, 1, Len(fstack) - 1) EXCEPT ![Len(fstack) - 1] =
                          [@ EXCEPT !.blocks = @ \o blocks]]
         /\ UNCHANGED <<fetched, pc>>

\* what `break` in the catch leaves in `blocks`: all that was pushed before
CollectedNothing(frame) == <<>>
Collected(frame) == frame.blocks

\* the listing throws: `catch (error) { console.error(...); break; }`, then
\* `return blocks`
FetchListFail ==
    /\ pc = "fetch" /\ fstack # <<>>
    /\ FTop.i > Len(FTop.results) /\ FTop.hasMore
    /\ \E o \in ListOutcomes(world, FTop.pageId) \ {"ok"} :
         /\ calls' = Append(calls, ListCall(FTop.pageId, FTop.cursor, o))
         /\ failBudget' = Spend(o)
    /\ FetchPop(Collected(FTop))
    /\ UNCHANGED <<provVars, froot, convVars, replVars,
                   jobVars>>

\* `for (const block of response.results) { blocks.push(block); if (...) {
\* childBlocks = await getAllBlocksFromPage(block.id); ...`. The model follows
\* the recursion MaxDepth calls deep.
FetchBlock ==
    /\ pc = "fetch" /\ fstack # <<>>
    /\ FTop.i <= Len(FTop.results)
    /\ LET block == FTop.results[FTop.i]
           f == [FTop EXCEPT !.blocks = Append(@, block), !.i = @ + 1]
       IN  /\ Descends(block) => Len(fstack) < MaxDepth
           /\ fstack' = IF Descends(block)
                         THEN Append(FSetTop(f), FetchFrame(block.id))
                         ELSE FSetTop(f)
    /\ UNCHANGED <<provVars, failBudget, calls, pc, fetched, froot, convVars, replVars,
                   jobVars>>

\* `while (hasMore)` ends: `return blocks`
FetchReturn ==
    /\ pc = "fetch" /\ fstack # <<>>
    /\ FTop.i > Len(FTop.results) /\ ~FTop.hasMore
    /\ FetchPop(FTop.blocks)
    /\ UNCHANGED <<provVars, failBudget, calls, froot, convVars, replVars,
                   jobVars>>

NextFetch == FetchList \/ FetchListFail \/ FetchBlock \/ FetchReturn

SpecFetch == InitFetch /\ [][NextFetch]_vars

\* The blocks below a container in pre-order, sub-pages and linked databases
\* as leaves.
RECURSIVE PreOrder(_, _)
PreOrder(w, ks) ==
    IF ks = <<>> THEN <<>>
    ELSE LET b == Head(ks)
         IN  <<b>>
             \o (IF w.type[b] \in {"child_page", "child_database"} THEN <<>>
                 ELSE PreOrder(w, w.kids[b]))
             \o PreOrder(w, Tail(ks))

AllCallsOk == \A n \in 1..Len(calls) : calls[n].ok

\* C1: when no listing call fails, getAllBlocksFromPage(root) returns exactly the
\* blocks reachable from root without passing through a child_page or
\* child_database block, each once, in pre-order, whatever the split of the
\* sibling lists into provider pages.
C1_PreOrder ==
    (pc = "fetched" /\ AllCallsOk) =>
        /\ [n \in 1..Len(fetched) |-> fetched[n].id] = PreOrder(world, world.kids[froot])
        /\ \A n \in 1..Len(fetched) : fetched[n] = BlockRecord(world, fetched[n].id)
        /\ \A m, n \in 1..Len(fetched) : fetched[m].id = fetched[n].id => m = n

\* a walk over a tree with a sub-page that has content, nested blocks and a
\* sibling list split over several provider pages has returned
C1_Witness ==
    /\ pc = "fetched" /\ AllCallsOk
    /\ \E n \in 1..Len(fetched) :
         fetched[n].type = "child_page" /\ fetched[n].has_children
    /\ \E n \in 1..Len(fetched) : world.parent[fetched[n].id] # froot
    /\ \E n \in 1..Len(calls) : calls[n].cursor # NoCursor

\* the listing calls for container x, in the order they were issued
CallsFor(x) == SelectSeq(calls, LAMBDA c : c.op = "list" /\ c.block_id = x)

Containers == {calls[n].block_id : n \in 1..Len(calls)}

\* the blocks the responses rs delivered, in order
RECURSIVE Delivered(_)
Delivered(rs) ==
    IF rs = <<>> THEN <<>>
    ELSE (IF Head(rs).ok THEN Head(rs).results ELSE <<>>) \o Delivered(Tail(rs))

\* C19: the listing calls for a container follow the provider's pages one by
\* one: the first carries no cursor, each later one carries the next_cursor of
\* the response before it, and none follows a response with has_more = false;
\* once the fetch has returned, a container none of whose calls failed was
\* listed to its last page, so it got exactly as many calls as the provider
\* spread its children over pages, and the pages together are its children.
C19_OneCallPerProviderPage ==
    \A x \in Containers :
       LET cs == CallsFor(x)
       IN  /\ cs[1].cursor = NoCursor
           /\ \A j \in 2..Len(cs) :
                 /\ cs[j - 1].ok
                 /\ cs[j - 1].has_more
                 /\ cs[j].cursor = cs[j - 1].next_cursor
           /\ (pc = "fetched" /\ \A j \in 1..Len(cs) : cs[j].ok) =>
                 /\ ~cs[Len(cs)].has_more
                 /\ Delivered(cs) = world.kids[x]
                 /\ Len(cs) >= 1
                 /\ Len(cs) * PageSize >= Len(world.kids[x])
                 /\ Len(cs) <= Len(world.kids[x]) + 1

\* a fetch without failures has returned in which one container took three
\* listing calls and a container below the root took two
C19_Witness ==
    /\ pc = "fetched" /\ AllCallsOk
    /\ \E x \in Containers : Len(CallsFor(x)) >= 3
    /\ \E x \in Containers \ {froot} : Len(CallsFor(x)) >= 2

\* what the calls in the log make of container x: the blocks of its answered
\* listing calls in order, each followed by what they make of the block when
\* the fetcher descends into it
RECURSIVE Gathered(_)
Gathered(x) ==
    LET RECURSIVE Each(_)
        Each(ids) ==
            IF ids = <<>> THEN <<>>
            ELSE <<Head(ids)>>
                 \o (IF Descends(BlockRecord(world, Head(ids)))
                     THEN Gathered(Head(ids)) ELSE <<>>)
                 \o Each(Tail(ids))
    IN  Each(Delivered(CallsFor(x)))

\* C20: a listing call that throws is the last one for its container; the fetch
\* still returns, and what it returns is, for every container, the children its
\* answered calls delivered (a prefix of the container's children), each with
\* its own subtree gathered the same way: a failure cuts off only the rest of
\* the container it happened in.
C20_FailureTruncatesSubtree ==
    /\ \A x \in Containers :
          LET cs == CallsFor(x)
          IN  /\ \A j \in 1..Len(cs) : ~cs[j].ok => j = Len(cs)
              /\ IsPrefix(Delivered(cs), world.kids[x])
    /\ pc = "fetched" =>
          [n \in 1..Len(fetched) |-> fetched[n].id] = Gathered(froot)

\* the second listing call for a container below the root threw, and the fetch
\* returned blocks of that container's first page and blocks that come after
\* the container
C20_Witness ==
    /\ pc = "fetched"
    /\ \E x \in Containers \ {froot} :
          /\ Len(CallsFor(x)) = 2 /\ ~CallsFor(x)[2].ok
          /\ \E m, n \in 1..Len(fetched) :
                /\ m < n
                /\ world.parent[fetched[m].id] = x
                /\ world.parent[fetched[n].id] = world.parent[x]

\* ------------------------------------------------- getAllBlocksFromPage on any block graph

\* the fetch on the workspaces above and on the cyclic ones; the recursion goes
\* on whenever a step of it can be taken
InitCycle ==
    /\ mode \in Modes
    /\ \E n \in 1..Len(RawWorlds \o CyclicWorlds) :
         world = MkWorld((RawWorlds \o CyclicWorlds)[n], mode)
    /\ world0 = world
    /\ batch = PageSize
    /\ failBudget \in 0..MaxFail
    /\ calls = <<>>
    /\ pc = "fetch"
    /\ froot \in 1..Len(world.type)
    /\ fstack = <<FetchFrame(froot)>>
    /\ fetched = <<>>
    /\ IdleConv /\ IdleRepl /\ IdleJobs

SpecCycle == InitCycle /\ [][NextFetch]_vars /\ WF_vars(NextFetch)

\* the children of block x in the graph the fetch is to walk: those of a
\* sub-page or a linked database met below the root are not part of it
WalkKids(x) ==
    IF world.type[x] \in {"child_page", "child_database"} THEN {} ELSE Range(world.kids[x])

RECURSIVE Closure(_)
Closure(S) ==
    LET T == S \cup UNION {WalkKids(x) : x \in S}
    IN  IF T = S THEN S ELSE Closure(T)

\* the block graph the fetch from froot reaches has a cycle: a block the
\* fetcher meets and descends into is its own descendant
CyclicWalk ==
    \E x \in Closure(Range(world.kids[froot])) :
       x \in Closure(WalkKids(x))

AlwaysLive == FALSE
DryRun == plan[run] = "dry"

\* `if (block.type === 'to_do')` / `if (block.type === 'quote')`
IsSource(m, block) == block.type = SourceType(m)

\* the span the quote converter puts before and after the quote's text
QuoteMark == [type |-> "text", content |-> <<"\"">>, plain_text |-> <<"\"">>]

\* the rich text of the replacement block
RichTextUnwrapped(m, block) == block.rich_text
RichTextReversed(m, block) ==
    LET rt == IF m = "checkbox" THEN block.rich_text
              ELSE <<QuoteMark>> \o block.rich_text \o <<QuoteMark>>
    IN  [n \in 1..Len(rt) |-> rt[Len(rt) + 1 - n]]
NewRichText(m, block) ==
    IF m = "checkbox" THEN block.rich_text
    ELSE <<QuoteMark>> \o block.rich_text \o <<QuoteMark>>

\* `color: block.to_do.color || 'default'`
NewColor(block) == IF block.color = "none" THEN "default" ELSE block.color

\* `children: [{ bulleted_list_item: { rich_text, color } }]`
NewBlock(m, block) ==
    [type |-> DestType(m), rich_text |-> NewRichText(m, block), color |-> NewColor(block)]

\* the block_id of the append: page.id in the page loop, blockId in processChildBlocks
AppendToPage(top, pageId, blockId) == pageId
AppendTarget(top, pageId, blockId) == IF top THEN pageId ELSE blockId

\* whether the walk goes on into the block's children: the page loop's
\* `else if (block.has_children)`, processChildBlocks' `if (block.has_children)`
DescendNever(m, top, block) == FALSE
DescendAfter(m, top, block) ==
    IF top THEN ~IsSource(m, block) /\ block.has_children ELSE block.has_children

\* whether a failed listing is pushed to errors: in the page loop only, by the
\* page's catch
ListErrorAlwaysRecorded(top) == TRUE
ListErrorRecorded(top) == top

\* whether a failed conversion is pushed to errors: in the page loop only
RecordsError(top) == top

ConvFrame(blockId, top) ==
    [blockId |-> blockId, top |-> top, hasMore |-> TRUE, cursor |-> NoCursor,
     results |-> <<>>, i |-> 1, phase |-> "visit"]

ZeroCnt ==
    [totalCheckboxes |-> 0, convertedCheckboxes |-> 0, processedPages |-> 0,
     pageCheckboxCount |-> 0, pagesWithCheckboxes |-> 0,
     totalOccurrences |-> 0, pagesWithMatches |-> 0,
     modifiedPages |-> 0, totalReplacements |-> 0]

Top == stack[Len(stack)]
SetTop(f) == [stack EXCEPT ![Len(stack)] = f]
Page == pages[pageIdx]
Block == Top.results[Top.i]

\* the loop moves to the next block, after entering the block's children if asked
Advance(descend) ==
    LET f == [Top EXCEPT !.i = @ + 1, !.phase = "visit"]
    IN  IF descend THEN Append(SetTop(f), ConvFrame(Block.id, FALSE)) ELSE SetTop(f)

AppendCall(blockId, after, child, ok) ==
    [op |-> "append", block_id |-> blockId, after |-> after, children |-> <<child>>,
     ok |-> ok]
DeleteCall(blockId, ok) == [op |-> "delete", block_id |-> blockId, ok |-> ok]
SearchCall(cursor, ok) == [op |-> "search", cursor |-> cursor, ok |-> ok]

\* a session: a converter's dry run and then its live run, two live runs, the
\* find-and-replace dry-run command, or the find-and-replace replace command
Plans == {<<"dry", "live">>, <<"live", "live">>, <<"scan">>, <<"replace">>}

Init ==
    /\ mode \in Modes
    /\ \E n \in 1..Len(RawWorlds) : world = MkWorld(RawWorlds[n], mode)
    /\ world0 = world
    /\ batch \in 1..PageSize
    /\ failBudget \in 0..MaxFail
    /\ plan \in Plans
    /\ run = 1
    /\ pc = "search"
    /\ calls = <<>>
    /\ pages = <<>>
    /\ srch = [hasMore |-> TRUE, cursor |-> NoCursor]
    /\ pageIdx = 0
    /\ stack = <<>>
    /\ cnt = ZeroCnt
    /\ errors = <<>>
    /\ results = <<>>
    /\ IdleFetch /\ IdleRepl /\ IdleJobs

\* the running command ends with result r (kept with the pages getAllPages had
\* returned to it); the next command of the plan starts
EndCommand(r) ==
    /\ results' = Append(results, r @@ [pageIds |-> pages])
    /\ calls' = <<>>
    /\ pages' = <<>>
    /\ srch' = [hasMore |-> TRUE, cursor |-> NoCursor]
    /\ pageIdx' = 0
    /\ stack' = <<>>
    /\ cnt' = ZeroCnt
    /\ errors' = <<>>
    /\ IF run < Len(plan)
       THEN run' = run + 1 /\ pc' = "search"
       ELSE run' = run /\ pc' = "done"

\* getAllPages: `while (hasMore) { response = await notion.search(...);
\* pages.push(...response.results); hasMore = ...; cursor = ... }`
GetAllPages ==
    /\ pc = "search" /\ srch.hasMore
    /\ LET r == Search(world, srch.cursor, batch)
       IN  /\ pages' = pages \o r.results
           /\ srch' = [hasMore |-> r.has_more, cursor |-> r.next_cursor]
           /\ pc' = IF r.has_more THEN "search" ELSE "pages"
    /\ calls' = Append(calls, SearchCall(srch.cursor, TRUE))
    /\ UNCHANGED <<provVars, failBudget, mode, plan, run, pageIdx, stack, cnt, errors,
                   results, fetchVars, replVars,
                   jobVars>>

\* the search throws: getAllPages has no handler, the command's outer catch
\* rethrows (`spinner.fail(...); throw error`) and the command ends without a result
GetAllPagesFail ==
    /\ pc = "search" /\ srch.hasMore /\ failBudget > 0
    /\ failBudget' = failBudget - 1
    /\ EndCommand([cmd |-> plan[run], threw |-> TRUE,
                   calls |-> Append(calls, SearchCall(srch.cursor, FALSE))])
    /\ UNCHANGED <<provVars, mode, plan, fetchVars, replVars,
                   jobVars>>

\* `for (const page of pages) { processedPages++; ... try { let hasMoreBlocks = true; ...`
StartPage ==
    /\ pc = "pages" /\ plan[run] \in {"dry", "live"} /\ pageIdx < Len(pages)
    /\ pageIdx' = pageIdx + 1
    /\ cnt' = [cnt EXCEPT !.processedPages = @ + 1, !.pageCheckboxCount = 0]
    /\ stack' = <<ConvFrame(pages[pageIdx + 1], TRUE)>>
    /\ pc' = "walk"
    /\ UNCHANGED <<provVars, failBudget, calls, mode, plan, run, pages, srch, errors,
                   results, fetchVars, replVars,
                   jobVars>>

\* the page loop is over: `return { totalPages, pagesWithCheckboxes, totalCheckboxes,
\* convertedCheckboxes, errors }`
Finish ==
    /\ pc = "pages" /\ plan[run] \in {"dry", "live"} /\ pageIdx = Len(pages)
    /\ EndCommand([cmd |-> plan[run], threw |-> FALSE, found |-> Len(pages),
                   totalPages |-> cnt.processedPages,
                   pagesWithCheckboxes |-> cnt.pagesWithCheckboxes,
                   totalCheckboxes |-> cnt.totalCheckboxes,
                   convertedCheckboxes |-> cnt.convertedCheckboxes,
                   errors |-> errors, calls |-> calls])
    /\ UNCHANGED <<provVars, failBudget, mode, plan, fetchVars, replVars,
                   jobVars>>

\* `response = await notion.blocks.children.list({ block_id, start_cursor: cursor,
\* page_size: 100 })`, in the page loop and in processChildBlocks alike
ConvList ==
    /\ pc = "walk" /\ Top.i > Len(Top.results) /\ Top.hasMore
    /\ LET r == ChildrenList(world, Top.blockId, Top.cursor, batch)
       IN  stack' = SetTop([Top EXCEPT !.results = r.results, !.i = 1,
                                       !.hasMore = r.has_more, !.cursor = r.next_cursor])
    /\ calls' = Append(calls, ListCall(Top.blockId, Top.cursor, "ok"))
    /\ UNCHANGED <<provVars, failBudget, mode, plan, run, pc, pages, srch, pageIdx, cnt,
                   errors, results, fetchVars, replVars,
                   jobVars>>

\* the listing throws. In the page loop the page's catch records
\* `errors.push({ pageId, pageTitle, error })` and the next page follows. In
\* processChildBlocks the inner catch returns (ai_block / not supported) or
\* rethrows to the outer catch, which logs: either way the call returns normally.
ConvListFail ==
    /\ pc = "walk" /\ Top.i > Len(Top.results) /\ Top.hasMore
    /\ \E o \in ListOutcomes(world, Top.blockId) \ {"ok"} :
         /\ calls' = Append(calls, ListCall(Top.blockId, Top.cursor, o))
         /\ failBudget' = Spend(o)
    /\ IF ListErrorRecorded(Top.top)
       THEN /\ errors' = Append(errors, [pageId |-> Page, blockId |-> NoCursor])
            /\ stack' = IF Top.top THEN <<>> ELSE SubSeq(stack, 1, Len(stack) - 1)
            /\ pc' = IF Top.top THEN "pages" ELSE pc
       ELSE /\ stack' = SubSeq(stack, 1, Len(stack) - 1)
            /\ UNCHANGED <<errors, pc>>
    /\ UNCHANGED <<provVars, mode, plan, run, pages, srch, pageIdx, cnt, results,
                   fetchVars, replVars,
                   jobVars>>

\* a block that is not converted now: not of the source type, or the run is dry.
\* The page loop counts a source block (totalCheckboxes++, pageCheckboxCount++, and
\* in a dry run convertedCheckboxes++); processChildBlocks counts nothing.
ConvVisit ==
    /\ pc = "walk" /\ Top.i <= Len(Top.results) /\ Top.phase = "visit"
    /\ ~IsSource(mode, Block) \/ DryRun
    /\ cnt' = IF Top.top /\ IsSource(mode, Block)
              THEN [cnt EXCEPT !.totalCheckboxes = @ + 1, !.pageCheckboxCount = @ + 1,
                               !.convertedCheckboxes = @ + 1]
              ELSE cnt
    /\ stack' = Advance(DescendAfter(mode, Top.top, Block))
    /\ UNCHANGED <<provVars, failBudget, calls, mode, plan, run, pc, pages, srch, pageIdx,
                   errors, results, fetchVars, replVars,
                   jobVars>>

\* a block whose conversion failed: the page loop pushes to errors, processChildBlocks
\* only logs and then looks at the block's children
ConvCatch ==
    /\ errors' = IF RecordsError(Top.top)
                 THEN Append(errors, [pageId |-> Page, blockId |-> Block.id])
                 ELSE errors
    /\ stack' = Advance(DescendAfter(mode, Top.top, Block))

\* the counters of the page loop when it meets a source block in a live run
CountFound ==
    IF Top.top
    THEN [cnt EXCEPT !.totalCheckboxes = @ + 1, !.pageCheckboxCount = @ + 1]
    ELSE cnt

\* live run, source block: `await notion.blocks.children.append({ block_id,
\* children: [{...}], after: block.id })` succeeds
ConvAppend ==
    /\ pc = "walk" /\ Top.i <= Len(Top.results) /\ Top.phase = "visit"
    /\ IsSource(mode, Block) /\ ~DryRun
    /\ LET target == AppendTarget(Top.top, Page, Top.blockId)
       IN  /\ AppendAccepted(world, target, Block.id)
           /\ world' = ChildrenAppend(world, target, Block.id, NewBlock(mode, Block))
           /\ calls' = Append(calls, AppendCall(target, Block.id, NewBlock(mode, Block), TRUE))
    /\ cnt' = CountFound
    /\ stack' = SetTop([Top EXCEPT !.phase = "delete"])
    /\ UNCHANGED <<world0, batch, failBudget, mode, plan, run, pc, pages, srch, pageIdx,
                   errors, results, fetchVars, replVars,
                   jobVars>>

\* the append throws: the provider rejects it, or a transport error
ConvAppendFail ==
    /\ pc = "walk" /\ Top.i <= Len(Top.results) /\ Top.phase = "visit"
    /\ IsSource(mode, Block) /\ ~DryRun
    /\ LET target == AppendTarget(Top.top, Page, Top.blockId)
       IN  /\ ~AppendAccepted(world, target, Block.id) \/ failBudget > 0
           /\ failBudget' = IF AppendAccepted(world, target, Block.id)
                            THEN failBudget - 1 ELSE failBudget
           /\ calls' = Append(calls, AppendCall(target, Block.id, NewBlock(mode, Block), FALSE))
    /\ cnt' = CountFound
    /\ ConvCatch
    /\ UNCHANGED <<provVars, mode, plan, run, pc, pages, srch, pageIdx, results,
                   fetchVars, replVars,
                   jobVars>>

\* `await notion.blocks.delete({ block_id: block.id })` succeeds; the page loop
\* counts the conversion, processChildBlocks looks at the block's children
ConvDelete ==
    /\ pc = "walk" /\ Top.i <= Len(Top.results) /\ Top.phase = "delete"
    /\ world' = BlockDelete(world, Block.id)
    /\ calls' = Append(calls, DeleteCall(Block.id, TRUE))
    /\ cnt' = IF Top.top THEN [cnt EXCEPT !.convertedCheckboxes = @ + 1] ELSE cnt
    /\ stack' = Advance(DescendAfter(mode, Top.top, Block))
    /\ UNCHANGED <<world0, batch, failBudget, mode, plan, run, pc, pages, srch, pageIdx,
                   errors, results, fetchVars, replVars,
                   jobVars>>

\* the delete throws
ConvDeleteFail ==
    /\ pc = "walk" /\ Top.i <= Len(Top.results) /\ Top.phase = "delete"
    /\ failBudget > 0
    /\ failBudget' = failBudget - 1
    /\ calls' = Append(calls, DeleteCall(Block.id, FALSE))
    /\ ConvCatch
    /\ UNCHANGED <<provVars, mode, plan, run, pc, pages, srch, pageIdx, cnt, results,
                   fetchVars, replVars,
                   jobVars>>

\* `while (hasMoreBlocks)` ends. processChildBlocks returns to its caller; the
\* page loop does `if (pageCheckboxCount > 0) pagesWithCheckboxes.push(...)` and
\* goes to the next page.
ConvReturn ==
    /\ pc = "walk" /\ Top.i > Len(Top.results) /\ ~Top.hasMore
    /\ stack' = SubSeq(stack, 1, Len(stack) - 1)
    /\ IF Top.top
       THEN /\ pc' = "pages"
            /\ cnt' = IF cnt.pageCheckboxCount > 0
                      THEN [cnt EXCEPT !.pagesWithCheckboxes = @ + 1] ELSE cnt
       ELSE UNCHANGED <<pc, cnt>>
    /\ UNCHANGED <<provVars, failBudget, calls, mode, plan, run, pages, srch, pageIdx,
                   errors, results, fetchVars, replVars,
                   jobVars>>

\* ------------------------------------------------- find-and-replace: dry-run command

\* the text the dry-run command is asked to look for
ScanSearch == <<"a">>

\* extractTextFromBlock: the rich text of the block types that carry text
TextTypes ==
    {"paragraph", "heading_1", "heading_2", "heading_3", "bulleted_list_item",
     "numbered_list_item", "toggle", "quote", "callout", "to_do", "code"}
extractTextFromBlock(block) == IF block.type \in TextTypes THEN block.rich_text ELSE <<>>


\* `(str.match(new RegExp(escapeRegExp(searchText), 'g')) || []).length`: the
\* occurrences of the search text, left to right, not overlapping
RECURSIVE CountMatches(_, _)
CountMatches(str, searchText) ==
    IF Len(str) < Len(searchText) THEN 0
    ELSE IF IsPrefix(searchText, str)
         THEN 1 + CountMatches(SubSeq(str, Len(searchText) + 1, Len(str)), searchText)
         ELSE CountMatches(Tail(str), searchText)

\* the matches the dry-run command counts in one span: text content, link URL, href
SpanOccurrences(richText, searchText) ==
    (IF richText.type = "text" /\ richText.content # <<>>
     THEN CountMatches(richText.content, searchText) ELSE 0)
    + (IF richText.type = "text" /\ richText.url # <<>>
       THEN CountMatches(richText.url, searchText) ELSE 0)
    + (IF richText.href # <<>> THEN CountMatches(richText.href, searchText) ELSE 0)

RECURSIVE SumOccurrences(_, _)
SumOccurrences(texts, searchText) ==
    IF texts = <<>> THEN 0
    ELSE SpanOccurrences(Head(texts), searchText) + SumOccurrences(Tail(texts), searchText)

RECURSIVE PageOccurrences(_, _)
PageOccurrences(blocks, searchText) ==
    IF blocks = <<>> THEN 0
    ELSE SumOccurrences(extractTextFromBlock(Head(blocks)), searchText)
         + PageOccurrences(Tail(blocks), searchText)

\* searchAndReplaceInRichText and the string replacement it is built on

\* `str.replace(regex, replaceText)` expands the replacement text for every match:
\* `$$` stands for `$` and `$&` for the matched text; a `$` before another
\* character of the model's alphabet is kept as it is.
RECURSIVE Substitution(_, _)
Substitution(replaceText, matched) ==
    IF replaceText = <<>> THEN <<>>
    ELSE IF Len(replaceText) >= 2 /\ replaceText[1] = "$" /\ replaceText[2] = "$"
         THEN <<"$">> \o Substitution(SubSeq(replaceText, 3, Len(replaceText)), matched)
    ELSE IF Len(replaceText) >= 2 /\ replaceText[1] = "$" /\ replaceText[2] = "&"
         THEN matched \o Substitution(SubSeq(replaceText, 3, Len(replaceText)), matched)
    ELSE <<Head(replaceText)>> \o Substitution(Tail(replaceText), matched)

\* `str.replace(new RegExp(escapeRegExp(searchText), 'g'), replaceText)`: the
\* escaped pattern matches the search text literally; matches are taken left to
\* right and do not overlap.
RECURSIVE StrReplace(_, _, _)
StrReplace(str, searchText, replaceText) ==
    IF Len(str) < Len(searchText) THEN str
    ELSE IF IsPrefix(searchText, str)
         THEN Substitution(replaceText, searchText)
              \o StrReplace(SubSeq(str, Len(searchText) + 1, Len(str)), searchText, replaceText)
         ELSE <<Head(str)>> \o StrReplace(Tail(str), searchText, replaceText)

\* one item of `richTextArray.map(item => ...)`
UpdatedItem(item, searchText, replaceText) ==
    [item EXCEPT
       !.content = IF item.type = "text" /\ item.content # <<>>
                   THEN StrReplace(@, searchText, replaceText) ELSE @,
       !.url     = IF item.type = "text" /\ item.url # <<>>
                   THEN StrReplace(@, searchText, replaceText) ELSE @,
       !.href    = IF item.href # <<>>
                   THEN StrReplace(@, searchText, replaceText) ELSE @]

\* `if (originalContent !== newContent) modified = true`, likewise for the URL
\* and the href
ItemModified(item, searchText, replaceText) ==
    \/ item.type = "text" /\ item.content # <<>>
       /\ item.content # StrReplace(item.content, searchText, replaceText)
    \/ item.type = "text" /\ item.url # <<>>
       /\ item.url # StrReplace(item.url, searchText, replaceText)
    \/ item.href # <<>> /\ item.href # StrReplace(item.href, searchText, replaceText)

searchAndReplaceInRichText(richTextArray, searchText, replaceText) ==
    [modified |-> \E n \in 1..Len(richTextArray) :
                     ItemModified(richTextArray[n], searchText, replaceText),
     updatedRichText |-> [n \in 1..Len(richTextArray) |->
                            UpdatedItem(richTextArray[n], searchText, replaceText)]]

\* `for (idx...) { page = pages[idx]; blocks = await getPageContent(notion, page.id)`;
\* findAndReplaceInWorkspace starts a page the same way, with
\* `pageModified = false; pageReplacements = 0` and the block index j
ScanStartPage ==
    /\ pc = "pages" /\ plan[run] \in {"scan", "replace"} /\ pageIdx < Len(pages)
    /\ pageIdx' = pageIdx + 1
    /\ stack' = <<[blockId |-> pages[pageIdx + 1], blocks |-> <<>>, hasMore |-> TRUE,
                   cursor |-> NoCursor, j |-> 1, pageReplacements |-> 0]>>
    /\ pc' = "content"
    /\ UNCHANGED <<provVars, failBudget, calls, mode, plan, run, pages, srch, cnt, errors,
                   results, fetchVars, replVars,
                   jobVars>>

\* getPageContent: `while (hasMore) { response = await notion.blocks.children.list(...);
\* blocks.push(...response.results); hasMore = ...; cursor = ... }`
GetPageContent ==
    /\ pc = "content" /\ Top.hasMore
    /\ LET r == ChildrenList(world, Top.blockId, Top.cursor, batch)
       IN  stack' = SetTop([Top EXCEPT !.blocks = @ \o r.results,
                                       !.hasMore = r.has_more, !.cursor = r.next_cursor])
    /\ calls' = Append(calls, ListCall(Top.blockId, Top.cursor, "ok"))
    /\ UNCHANGED <<provVars, failBudget, mode, plan, run, pc, pages, srch, pageIdx, cnt,
                   errors, results, fetchVars, replVars,
                   jobVars>>

\* the listing throws: neither getPageContent nor the page loop of the dry-run
\* command has a handler; the command's catch prints and exits with code 1
GetPageContentFail ==
    /\ pc = "content" /\ plan[run] = "scan" /\ Top.hasMore /\ failBudget > 0
    /\ failBudget' = failBudget - 1
    /\ EndCommand([cmd |-> plan[run], threw |-> TRUE,
                   calls |-> Append(calls, ListCall(Top.blockId, Top.cursor, "error"))])
    /\ UNCHANGED <<provVars, mode, plan, fetchVars, replVars,
                   jobVars>>

\* the page's blocks are in: count the matches of every span of every block;
\* `if (pageOccurrences > 0) { totalOccurrences += ...; pagesWithMatches.push(...) }`
ScanCount ==
    /\ pc = "content" /\ plan[run] = "scan" /\ ~Top.hasMore
    /\ LET pageOccurrences == PageOccurrences(Top.blocks, ScanSearch)
       IN  cnt' = IF pageOccurrences > 0
                  THEN [cnt EXCEPT !.totalOccurrences = @ + pageOccurrences,
                                   !.pagesWithMatches = @ + 1]
                  ELSE cnt
    /\ stack' = <<>>
    /\ pc' = "pages"
    /\ UNCHANGED <<provVars, failBudget, calls, mode, plan, run, pages, srch, pageIdx,
                   errors, results, fetchVars, replVars,
                   jobVars>>

\* the page loop is over: the totals are printed
ScanFinish ==
    /\ pc = "pages" /\ plan[run] = "scan" /\ pageIdx = Len(pages)
    /\ EndCommand([cmd |-> plan[run], threw |-> FALSE, found |-> Len(pages),
                   totalOccurrences |-> cnt.totalOccurrences,
                   pagesWithMatches |-> cnt.pagesWithMatches, calls |-> calls])
    /\ UNCHANGED <<provVars, failBudget, mode, plan, fetchVars, replVars,
                   jobVars>>

\* ------------------------------------------------- find-and-replace: replace command
\* findAndReplaceInWorkspace with processBlock, run with one search text
\* (ScanSearch) and one replacement text.

ReplaceWith == <<"c">>

\* notion.blocks.update({block_id, [type]: {rich_text}}): the block's rich text
\* is replaced
BlockUpdate(w, blockId, richText) == [w EXCEPT !.text[blockId] = richText]

UpdateCall(blockId, richText, ok) ==
    [op |-> "update", block_id |-> blockId, rich_text |-> richText, ok |-> ok]

\* the block the loop `for (let j = 0; j < blocks.length; j++)` is at
BlockJ == Top.blocks[Top.j]

\* processBlock up to its update call: whether it gets there (the block carries
\* text, `textArray.length === 0` is false, and the substitution modified it)
SendsUpdate(block) ==
    /\ extractTextFromBlock(block) # <<>>
    /\ searchAndReplaceInRichText(extractTextFromBlock(block), ScanSearch, ReplaceWith).modified

updatedRichText(block) ==
    searchAndReplaceInRichText(extractTextFromBlock(block), ScanSearch, ReplaceWith).updatedRichText

InBlockLoop ==
    /\ pc = "content" /\ plan[run] = "replace" /\ ~Top.hasMore
    /\ Top.j <= Len(Top.blocks)

\* one pass of the block loop in which nothing throws: processBlock returns
\* {modified: false}, or updates the block and returns {modified: true}
ProcessBlock ==
    /\ InBlockLoop
    /\ IF SendsUpdate(BlockJ)
       THEN /\ world' = BlockUpdate(world, BlockJ.id, updatedRichText(BlockJ))
            /\ calls' = Append(calls, UpdateCall(BlockJ.id, updatedRichText(BlockJ), TRUE))
            /\ stack' = SetTop([Top EXCEPT !.j = @ + 1, !.pageReplacements = @ + 1])
       ELSE /\ stack' = SetTop([Top EXCEPT !.j = @ + 1])
            /\ UNCHANGED <<world, calls>>
    /\ UNCHANGED <<world0, batch, failBudget, mode, plan, run, pc, pages, srch, pageIdx,
                   cnt, errors, results, fetchVars, replVars,
                   jobVars>>

\* notion.blocks.update throws: `catch (blockError)` warns and the loop goes on
ProcessBlockFail ==
    /\ InBlockLoop /\ SendsUpdate(BlockJ) /\ failBudget > 0
    /\ failBudget' = failBudget - 1
    /\ calls' = Append(calls, UpdateCall(BlockJ.id, updatedRichText(BlockJ), FALSE))
    /\ stack' = SetTop([Top EXCEPT !.j = @ + 1])
    /\ UNCHANGED <<provVars, mode, plan, run, pc, pages, srch, pageIdx, cnt, errors,
                   results, fetchVars, replVars,
                   jobVars>>

\* after the block loop: `if (pageModified) { results.modifiedPages.push(...);
\* results.totalReplacements += pageReplacements }`
ReplacePageDone ==
    /\ pc = "content" /\ plan[run] = "replace" /\ ~Top.hasMore
    /\ Top.j > Len(Top.blocks)
    /\ cnt' = IF Top.pageReplacements > 0
              THEN [cnt EXCEPT !.modifiedPages = @ + 1,
                               !.totalReplacements = @ + Top.pageReplacements]
              ELSE cnt
    /\ stack' = <<>>
    /\ pc' = "pages"
    /\ UNCHANGED <<provVars, failBudget, calls, mode, plan, run, pages, srch, pageIdx,
                   errors, results, fetchVars, replVars,
                   jobVars>>

\* getPageContent throws: `catch (pageError) { results.errors.push({pageId, ...}) }`
\* and the page loop goes on
ReplacePageCatch ==
    /\ pc = "content" /\ plan[run] = "replace" /\ Top.hasMore /\ failBudget > 0
    /\ failBudget' = failBudget - 1
    /\ calls' = Append(calls, ListCall(Top.blockId, Top.cursor, "error"))
    /\ errors' = Append(errors, [pageId |-> Top.blockId])
    /\ stack' = <<>>
    /\ pc' = "pages"
    /\ UNCHANGED <<provVars, mode, plan, run, pages, srch, pageIdx, cnt, results,
                   fetchVars, replVars,
                   jobVars>>

\* `return results`
ReplaceFinish ==
    /\ pc = "pages" /\ plan[run] = "replace" /\ pageIdx = Len(pages)
    /\ EndCommand([cmd |-> plan[run], threw |-> FALSE, found |-> Len(pages),
                   totalPages |-> Len(pages), modifiedPages |-> cnt.modifiedPages,
                   totalReplacements |-> cnt.totalReplacements,
                   errors |-> errors, calls |-> calls])
    /\ UNCHANGED <<provVars, failBudget, mode, plan, fetchVars, replVars,
                   jobVars>>

Next ==
    \/ GetAllPages \/ GetAllPagesFail \/ StartPage \/ Finish
    \/ ConvList \/ ConvListFail \/ ConvVisit
    \/ ConvAppend \/ ConvAppendFail \/ ConvDelete \/ ConvDeleteFail \/ ConvReturn
    \/ ScanStartPage \/ GetPageContent \/ GetPageContentFail \/ ScanCount \/ ScanFinish
    \/ ProcessBlock \/ ProcessBlockFail \/ ReplacePageDone \/ ReplacePageCatch
    \/ ReplaceFinish

Spec == Init /\ [][Next]_vars

\* ------------------------------------------------- claims about the converters

\* the call log of command r: kept in its result once it ended, `calls` while it runs
Ended(r) == r <= Len(results)
LogOf(r) == IF Ended(r) THEN results[r].calls ELSE IF r = run THEN calls ELSE <<>>
Returned(r) == Ended(r) /\ ~results[r].threw
Live(r) == r \in 1..Len(plan) /\ plan[r] = "live"
Dry(r) == r \in 1..Len(plan) /\ plan[r] = "dry"
IsWrite(c) == c.op \in {"append", "delete", "update", "page_update"}
NoCallFailed(r) == \A n \in 1..Len(LogOf(r)) : LogOf(r)[n].ok
Clean(r) == Returned(r) /\ NoCallFailed(r)
Src == SourceType(mode)

\* C2: in a live run every append goes to the container that holds the block
\* being converted, with after = that block and one child of the destination
\* type; a successful append is followed at once by the delete of that block;
\* every delete directly follows the successful append for the same block; only
\* blocks of the source type are appended after or deleted.
C2_AppendThenDelete ==
    \A r \in 1..Len(plan) :
      LET L == LogOf(r) IN
      /\ \A n \in 1..Len(L) :
           /\ L[n].op = "append" =>
                /\ Len(L[n].children) = 1
                /\ L[n].children[1].type = DestType(mode)
                /\ world.type[L[n].after] = Src
                /\ L[n].block_id = world.parent[L[n].after]
                /\ (L[n].ok /\ n < Len(L)) =>
                      L[n + 1].op = "delete" /\ L[n + 1].block_id = L[n].after
                /\ (L[n].ok /\ n = Len(L)) =>
                      ~Ended(r) /\ Top.phase = "delete" /\ Block.id = L[n].after
                /\ (~L[n].ok /\ n < Len(L)) => L[n + 1].op # "delete"
           /\ L[n].op = "delete" =>
                /\ n > 1
                /\ L[n - 1].op = "append" /\ L[n - 1].ok
                /\ L[n - 1].after = L[n].block_id
                /\ world.type[L[n].block_id] = Src

\* a live run has ended in which a top-level and a nested block were converted
\* and another block's append failed
C2_Witness ==
    \E r \in 1..Len(results) :
      LET L == results[r].calls IN
      /\ Live(r) /\ Returned(r)
      /\ \E n \in 1..Len(L) : L[n].op = "delete" /\ L[n].ok
                              /\ world.parent[L[n].block_id] \in Range(world.pages)
      /\ \E n \in 1..Len(L) : L[n].op = "delete" /\ L[n].ok
                              /\ world.parent[L[n].block_id] \notin Range(world.pages)
      /\ \E n \in 1..Len(L) : L[n].op = "append" /\ ~L[n].ok

\* the successful appends of all commands so far
Conversions ==
    UNION {{LogOf(r)[n] : n \in {k \in 1..Len(LogOf(r)) :
                LogOf(r)[k].op = "append" /\ LogOf(r)[k].ok}} : r \in 1..Len(plan)}

ColorKept(c) ==
    c.children[1].color =
        (IF world.color[c.after] = "none" THEN "default" ELSE world.color[c.after])

\* C3 as stated: the replacement of every converted block, checkbox or quote,
\* has the original's span list and colour.
C3_SameSpans ==
    \A c \in Conversions :
      c.children[1].rich_text = world.text[c.after] /\ ColorKept(c)

\* C3 as amended: the checkbox converter's replacement has the original's span
\* list; the quote converter's replacement has the original's spans, in their
\* order and unchanged, between one added span in front and one behind; both
\* keep the colour ('default' when the original has none).
C3_SpansKeptInOrder ==
    \A c \in Conversions :
      LET rt == c.children[1].rich_text
          orig == world.text[c.after]
      IN  /\ ColorKept(c)
          /\ mode = "checkbox" => rt = orig
          /\ mode = "quote" =>
               Len(rt) = Len(orig) + 2 /\ \A n \in 1..Len(orig) : rt[n + 1] = orig[n]

\* both converters' cases: a converted block with two spans and a colour of its
\* own, and one without a colour
C3_Witness ==
    /\ \E c \in Conversions :
         Len(world.text[c.after]) = 2 /\ world.color[c.after] = "default"
    /\ \E c \in Conversions : world.color[c.after] = "none"
    /\ pc = "done"

\* C4: the quote converter's paragraph carries exactly one '"' span, the
\* quote's spans in their order, and one '"' span, for top-level quotes and
\* for quotes found by processChildBlocks.
C4_QuotedRichText ==
    mode = "quote" =>
      \A r \in 1..Len(plan) : \A n \in 1..Len(LogOf(r)) :
        LogOf(r)[n].op = "append" =>
          /\ LogOf(r)[n].children[1].type = "paragraph"
          /\ LogOf(r)[n].children[1].rich_text =
               <<QuoteMark>> \o world.text[LogOf(r)[n].after] \o <<QuoteMark>>

\* a top-level quote and a nested quote with text were replaced
C4_Witness ==
    /\ mode = "quote"
    /\ \E c \in Conversions :
         world.parent[c.after] \in Range(world.pages) /\ world.text[c.after] # <<>>
    /\ \E c \in Conversions :
         world.parent[c.after] \notin Range(world.pages) /\ world.text[c.after] # <<>>

\* blocks of the source type that are still on some page of the workspace
SourceLeft(w) ==
    {b \in 1..Len(w.type) :
        /\ w.type[b] = Src /\ b \notin w.dead
        /\ \E p \in Range(w.pages) : b \in Descendants(w, p)}

\* the containers command r listed, in order
RECURSIVE Listed(_)
Listed(L) ==
    IF L = <<>> THEN <<>>
    ELSE (IF Head(L).op = "list" THEN <<Head(L).block_id>> ELSE <<>>) \o Listed(Tail(L))

ConvertedIn(L) == {L[n].after : n \in {k \in 1..Len(L) : L[k].op = "append" /\ L[k].ok}}

\* C5: after a live run in which every provider call succeeded no block of the
\* source type is left at any depth of any page, and a second run finds no
\* source block and issues no append and no delete.
C5_SecondRunNoOp ==
    (Live(1) /\ Clean(1)) =>
        /\ results[1].errors = <<>>
        /\ SourceLeft(world) = {}
        /\ \A n \in 1..Len(LogOf(2)) : ~IsWrite(LogOf(2)[n])
        /\ (run = 2 /\ ~Ended(2)) => cnt.totalCheckboxes = 0
        /\ Returned(2) =>
             results[2].totalCheckboxes = 0 /\ results[2].convertedCheckboxes = 0

\* two live runs have ended without a failed call; the first converted a
\* top-level and a nested block, the second walked the converted pages
C5_Witness ==
    /\ pc = "done" /\ Live(1) /\ Live(2) /\ Clean(1) /\ Clean(2)
    /\ \E b \in ConvertedIn(results[1].calls) : world.parent[b] \in Range(world.pages)
    /\ \E b \in ConvertedIn(results[1].calls) : world.parent[b] \notin Range(world.pages)
    /\ Len(Listed(results[2].calls)) >= 2

C6_ScanWitness ==
    /\ pc = "done" /\ plan = <<"scan">> /\ Returned(1)
    /\ results[1].pagesWithMatches = 2 /\ results[1].totalOccurrences >= 3

\* C7: the count a dry run reports equals the count of successful conversions
\* the following live run reports, when no provider call fails.
C7_DryRunParity ==
    (pc = "done" /\ Dry(1) /\ Live(2) /\ Clean(1) /\ Clean(2)) =>
        results[1].convertedCheckboxes = results[2].convertedCheckboxes

\* C8: a live run without failure converts every source block at every depth of
\* every page, and the children of a non-matching block are listed before the
\* children of any later sibling.
C8_EveryDepthConverted ==
    \A r \in 1..Len(plan) :
      (Live(r) /\ Clean(r) /\ (r = 1 \/ Dry(1))) =>
        /\ SourceLeft(world0) \subseteq ConvertedIn(results[r].calls)
        /\ \A c \in 1..Len(world0.type) :
             \A i, j \in 1..Len(world0.kids[c]) :
               LET a == world0.kids[c][i]
                   b == world0.kids[c][j]
                   L == Listed(results[r].calls)
               IN  (i < j /\ a \in Range(L) /\ b \in Range(L) /\ world0.type[a] # Src)
                      => IndexOf(L, a) < IndexOf(L, b)

\* the block a failed write was about
FailedOn(c) == IF c.op = "append" THEN c.after ELSE c.block_id

\* C9: every block whose append or delete threw, top-level or nested, has an
\* entry in the errors list the converter returns, and the converter went on
\* through all the pages.
C9_FailuresRecorded ==
    \A r \in 1..Len(plan) :
      (Live(r) /\ Returned(r)) =>
        /\ results[r].totalPages = results[r].found
        /\ \A n \in 1..Len(results[r].calls) :
             LET c == results[r].calls[n]
             IN  (IsWrite(c) /\ ~c.ok) =>
                    \E k \in 1..Len(results[r].errors) :
                       results[r].errors[k].blockId = FailedOn(c)

\* how often log L starts listing the children of block b
StartsOf(L, b) ==
    Cardinality({n \in 1..Len(L) :
                   L[n].op = "list" /\ L[n].block_id = b /\ L[n].cursor = NoCursor})

SubPages == {b \in 1..Len(world0.type) : world0.type[b] \in {"child_page", "child_database"}}

\* C21: in one converter run the children of a child_page or child_database
\* block are listed only when the block is a page of the run, and then once:
\* the walk of another page never lists them.
C21_SubPagesNotDescended ==
    \A r \in 1..Len(results) :
       results[r].cmd \in {"dry", "live"} =>
          \A b \in SubPages :
             StartsOf(results[r].calls, b)
                <= (IF b \in Range(results[r].pageIds) THEN 1 ELSE 0)

\* ------------------------------------------------- searchAndReplaceInRichText

\* the inputs
StringsOver(chars, n) == UNION {[1..k -> chars] : k \in 0..n}
TextChars == {"a", "b"}
ReplaceChars == {"a", "b", "$", "&"}
LinkPairs == {<< <<>>, <<>> >>, << <<"a", "b">>, <<"a", "b">> >>, << <<>>, <<"b", "a">> >>}

SpanSet(len) ==
    {[type |-> "text", content |-> c, url |-> l[1], href |-> l[2], plain_text |-> c] :
        c \in StringsOver(TextChars, len), l \in LinkPairs}
    \cup {[type |-> "mention", content |-> <<>>, url |-> <<>>, href |-> h,
           plain_text |-> <<"b">>] : h \in {<<>>, <<"b", "a">>}}

SecondSpans ==
    {[type |-> "text", content |-> <<"a", "b">>, url |-> <<"b", "a">>, href |-> <<"b", "a">>,
      plain_text |-> <<"a", "b">>],
     [type |-> "mention", content |-> <<>>, url |-> <<>>, href |-> <<"a">>,
      plain_text |-> <<"b">>]}

\* the scenario: "foo" -> "bar" in "foo is foofoo"
Scenario ==
    [richText |-> <<TextSpan(<<"f", "o", "o", " ", "i", "s", " ", "f", "o", "o", "f", "o", "o">>)>>,
     searchText |-> <<"f", "o", "o">>, replaceText |-> <<"b", "a", "r">>]

ReplInputs(strLen, patLen) ==
    {[richText |-> rt, searchText |-> st, replaceText |-> rp] :
        rt \in {<<>>} \cup {<<x>> : x \in SpanSet(strLen)}
               \cup {<<x, y>> : x \in SpanSet(strLen - 1), y \in SecondSpans},
        st \in StringsOver(TextChars, patLen) \ {<<>>},
        rp \in StringsOver(ReplaceChars, patLen)}
    \cup {Scenario}

InitRepl ==
    /\ rin \in ReplInputs(MaxStrLen, MaxPatLen)
    /\ rout = <<>>
    /\ pc = "replace"
    /\ mode = "checkbox"
    /\ world = MkWorld(RawWorlds[1], mode)
    /\ world0 = world
    /\ batch = PageSize
    /\ failBudget = 0
    /\ calls = <<>>
    /\ IdleConv /\ IdleFetch /\ IdleJobs

ReplApply ==
    /\ pc = "replace"
    /\ rout' = searchAndReplaceInRichText(rin.richText, rin.searchText, rin.replaceText)
    /\ pc' = "replaced"
    /\ UNCHANGED <<provVars, failBudget, calls, convVars, fetchVars, rin, jobVars>>

NextRepl == ReplApply

SpecReplace == InitRepl /\ [][NextRepl]_vars

\* the claim's replacement: every non-overlapping occurrence of the search text,
\* left to right, becomes the replacement text itself
RECURSIVE LiteralReplace(_, _, _)
LiteralReplace(str, searchText, replaceText) ==
    IF Len(str) < Len(searchText) THEN str
    ELSE IF IsPrefix(searchText, str)
         THEN replaceText
              \o LiteralReplace(SubSeq(str, Len(searchText) + 1, Len(str)), searchText, replaceText)
         ELSE <<Head(str)>> \o LiteralReplace(Tail(str), searchText, replaceText)

ReplacedAsClaimed ==
    /\ Len(rout.updatedRichText) = Len(rin.richText)
    /\ \A n \in 1..Len(rin.richText) :
         LET a == rin.richText[n]
             b == rout.updatedRichText[n]
         IN  /\ b.type = a.type
             /\ b.content = IF a.type = "text"
                            THEN LiteralReplace(a.content, rin.searchText, rin.replaceText)
                            ELSE a.content
             /\ b.url = LiteralReplace(a.url, rin.searchText, rin.replaceText)
             /\ b.href = LiteralReplace(a.href, rin.searchText, rin.replaceText)
    /\ rout.modified <=>
         \E n \in 1..Len(rin.richText) :
            \/ rout.updatedRichText[n].content # rin.richText[n].content
            \/ rout.updatedRichText[n].url # rin.richText[n].url
            \/ rout.updatedRichText[n].href # rin.richText[n].href
    /\ rin = Scenario =>
         rout.updatedRichText[1].content =
            <<"b", "a", "r", " ", "i", "s", " ", "b", "a", "r", "b", "a", "r">>

\* C10: searchAndReplaceInRichText replaces every non-overlapping occurrence of
\* the search text by the replacement text in each span's content, link URL and
\* href, keeps the number and order of the spans, and reports modified exactly
\* when one of those strings changed; "foo is foofoo" becomes "bar is barbar".
C10_ReplacesEveryOccurrence == pc = "replaced" => ReplacedAsClaimed

\* C10, for replacement texts without a `$`: there the claim holds of the code.
C10_HoldsWithoutDollar ==
    (pc = "replaced" /\ "$" \notin Range(rin.replaceText)) => ReplacedAsClaimed

\* ------------------------------------------------- claims about the replace command

Replace(r) == r \in 1..Len(plan) /\ plan[r] = "replace"
UpdatedIn(L) == {L[n].block_id : n \in {k \in 1..Len(L) : L[k].op = "update"}}

\* C11: a replace command in which no provider call failed has sent a block
\* update for every text-bearing block holding the search text among the blocks
\* the block-tree fetcher returns for each page, at every nesting depth.
C11_EveryDepthUpdated ==
    \A r \in 1..Len(plan) :
      (Replace(r) /\ Clean(r)) =>
        \A p \in Range(results[r].pageIds) :
          \A b \in Range(PreOrder(world0, world0.kids[p])) :
            SendsUpdate(BlockRecord(world0, b)) => b \in UpdatedIn(results[r].calls)

\* C11, for the blocks directly under a page: there the claim holds of the code.
C11_TopLevelUpdated ==
    \A r \in 1..Len(plan) :
      (Replace(r) /\ Clean(r)) =>
        \A p \in Range(results[r].pageIds) :
          \A b \in Range(world0.kids[p]) :
            SendsUpdate(BlockRecord(world0, b)) => b \in UpdatedIn(results[r].calls)

\* ------------------------------------------------- claims about failures in a run

\* getAllPages returned its pages to command r
GotPages(r) ==
    /\ Ended(r)
    /\ \A n \in 1..Len(results[r].calls) :
         results[r].calls[n].op = "search" => results[r].calls[n].ok

\* the containers whose first listing call is in the log L
ListingStarted(L) ==
    {L[n].block_id : n \in {k \in 1..Len(L) : L[k].op = "list" /\ L[k].cursor = NoCursor}}

\* no listing of container x failed in the log L
ListedWhole(L, x) ==
    \A n \in 1..Len(L) : (L[n].op = "list" /\ L[n].block_id = x) => L[n].ok

AppendedAfter(L) == {L[n].after : n \in {k \in 1..Len(L) : L[k].op = "append"}}

\* every page getAllPages returned to command r was processed: the command came
\* to its end and asked for the blocks of each page
EveryPageProcessed(r) ==
    /\ ~results[r].threw
    /\ Range(results[r].pageIds) \subseteq ListingStarted(results[r].calls)

\* on every page of command r whose blocks were all listed, each block the
\* command has to write was written or tried, whatever happened to the blocks
\* before it: the replace command tried an update of each top-level block that
\* holds the search text, the first live converter run tried an append after
\* each top-level block of the source type
EveryBlockProcessed(r) ==
    \A p \in Range(results[r].pageIds) :
       ListedWhole(results[r].calls, p) =>
          \A b \in Range(world0.kids[p]) :
             /\ (Replace(r) /\ SendsUpdate(BlockRecord(world0, b)))
                   => b \in UpdatedIn(results[r].calls)
             /\ (Live(r) /\ r = 1 /\ world0.type[b] = Src)
                   => b \in AppendedAfter(results[r].calls)

\* C17: in every workspace-level command that got its pages, a failure on a page
\* does not end the run (every page is processed) and a failure on a block does
\* not keep the page's other blocks from being processed.
C17_FailuresDoNotAbort ==
    \A r \in 1..Len(results) :
       GotPages(r) => EveryPageProcessed(r) /\ EveryBlockProcessed(r)

\* C17, for the converters and the replace command: there the claim holds of the code.
C17_HoldsExceptDryRunCommand ==
    \A r \in 1..Len(results) :
       (GotPages(r) /\ plan[r] # "scan") => EveryPageProcessed(r) /\ EveryBlockProcessed(r)

\* the blocks the run's delete calls removed
DeletedIn(L) == {L[n].block_id : n \in {k \in 1..Len(L) : L[k].op = "delete" /\ L[k].ok}}

\* C30: of a source block a live run converted, every descendant is still in
\* the page (not in the trash) unless it is a source block itself, and the
\* source blocks among the descendants were converted by the run.
C30_DescendantsKept ==
    \A r \in 1..Len(results) :
       results[r].cmd = "live" =>
          \A b \in DeletedIn(results[r].calls) \cap (1..Len(world0.type)) :
             \A d \in Descendants(world0, b) :
                IF world0.type[d] = Src
                THEN d \in ConvertedIn(results[r].calls)
                ELSE d \notin world.dead

\* C30, for the delete calls themselves: a live run deletes source blocks only.
C30_OnlySourceBlocksDeleted ==
    \A r \in 1..Len(results) :
       results[r].cmd = "live" =>
          \A b \in DeletedIn(results[r].calls) \cap (1..Len(world0.type)) :
             world0.type[b] = Src

\* the listing calls of log L that failed as unsupported ('ai_block' or 'not
\* supported' in the message) on a block that is not a page of the run
UnsupportedAt(r) ==
    {n \in 1..Len(results[r].calls) :
        /\ results[r].calls[n].op = "list"
        /\ results[r].calls[n].outcome = "ai_block"
        /\ results[r].calls[n].block_id \notin Range(results[r].pageIds)}

FailedCalls(L) == Cardinality({n \in 1..Len(L) : ~L[n].ok})

\* the siblings that follow block b in its parent's list and whose children
\* the walk is to list: under a page the blocks with children that are not of
\* the source type, deeper down all blocks with children
LaterContainers(b) ==
    LET p  == world0.parent[b]
        ks == world0.kids[p]
    IN  {ks[j] : j \in {i \in 1..Len(ks) :
                          /\ i > IndexOf(ks, b)
                          /\ world0.kids[ks[i]] # <<>>
                          /\ (p \in Range(world0.pages) => world0.type[ks[i]] # Src)}}

\* C23: a converter run in which the listing of a block's children failed as
\* unsupported came to its end over all its pages; the failure is in no errors
\* entry (the errors list has at most one entry for each other failed call);
\* and the walk went on with the block's following siblings (checked in the
\* first dry run, where the tree is the one the run started with).
C23_UnsupportedSkipped ==
    \A r \in 1..Len(results) :
       (results[r].cmd \in {"dry", "live"} /\ GotPages(r) /\ UnsupportedAt(r) # {}) =>
          /\ EveryPageProcessed(r)
          /\ Len(results[r].errors)
                <= FailedCalls(results[r].calls) - Cardinality(UnsupportedAt(r))
          /\ \A n \in UnsupportedAt(r) :
                LET b == results[r].calls[n].block_id
                IN  (r = 1 /\ Dry(r) /\ ListedWhole(results[r].calls, world0.parent[b])) =>
                       LaterContainers(b) \subseteq ListingStarted(results[r].calls)

\* a run in which the listing of a block below the first page failed as
\* unsupported went on to list a following sibling of the block and then the
\* second page
C23_Witness ==
    \E r \in 1..Len(results) :
       /\ results[r].cmd \in {"dry", "live"} /\ ~results[r].threw
       /\ \E n \in UnsupportedAt(r) :
             LET L == results[r].calls
             IN  /\ \E m \in (n + 1)..Len(L) :
                       L[m].op = "list" /\ L[m].block_id \in LaterContainers(L[n].block_id)
                 /\ \E m \in (n + 1)..Len(L) :
                       L[m].op = "list" /\ L[m].block_id \in Range(results[r].pageIds)
       /\ results[r].errors = <<>>

\* ------------------------------------------------- the storage writers
\* convertTextToSpeech's field slicing with updatePageWithAudio of the Content64
\* converter ("content64"), updateBlogWithContent ("blog") and the single-field
\* updatePageWithAudio ("single"). A payload is a string whose characters are
\* all different, so that a lost or repeated piece shows.

Payload(n) == [i \in 1..n |-> i]
MaxPayloadLen == MaxFields * MAX_FIELD_SIZE

\* `for (let i = 0; i < str.length; i += size)
\*      push(str.substring(i, Math.min(i + size, str.length)))`
Slices(str, size) ==
    [k \in 1..((Len(str) + size - 1) \div size) |->
        SubSeq(str, (k - 1) * size + 1, Min(k * size, Len(str)))]

\* `audioChunks`: the payload cut into fields
FieldSlices(base64Audio) == Slices(base64Audio, MAX_FIELD_SIZE)

\* `maxChunkSize = fieldIndex >= 12 ? 1000 : 2000`
maxChunkSize(fieldIndex) == IF fieldIndex >= MagicIndex THEN SmallSpanSize ELSE SpanSize

\* `dataToStore = fieldIndex >= 12 ? audioBase64.substring(0, Math.min(length, 50000))
\*                                 : audioBase64`
dataToStore(fieldIndex, audioBase64) ==
    IF fieldIndex >= MagicIndex
    THEN SubSeq(audioBase64, 1, Min(Len(audioBase64), SmallFieldCap))
    ELSE audioBase64

Span(c) == [type |-> "text", content |-> c]

\* `textChunks` of one field
textChunks(fieldIndex, audioBase64) ==
    LET pieces == Slices(dataToStore(fieldIndex, audioBase64), maxChunkSize(fieldIndex))
    IN  [k \in 1..Len(pieces) |-> Span(pieces[k])]

\* `chunks` of updateBlogWithContent and of the single-field updatePageWithAudio
OneFieldChunks(content) ==
    LET pieces == Slices(content, SpanSize)
    IN  [k \in 1..Len(pieces) |-> Span(pieces[k])]

\* what a page update can do: succeed, or throw with one of these in its message
UpdateErrors == {"internal_server_error", "validation_error", "path.not_found", "other"}

WriterKinds == {"content64", "blog", "single"}

InitWrite ==
    /\ \E k \in WriterKinds, n \in 0..MaxPayloadLen :
         wr = [kind |-> k,
               payload |-> Payload(n),
               audioChunks |-> IF k = "content64" THEN FieldSlices(Payload(n)) ELSE <<>>,
               fieldIndex |-> 0,
               retries |-> 0,
               successfulFields |-> <<>>,
               stored |-> <<>>,
               log |-> <<>>,
               budget |-> MaxWriteFail,
               ret |-> FALSE]
    /\ pc = "write"
    /\ sp = <<>> /\ wf = <<>>
    /\ mode = "checkbox"
    /\ world = MkWorld(RawWorlds[1], mode)
    /\ world0 = world
    /\ batch = PageSize
    /\ failBudget = 0
    /\ calls = <<>>
    /\ IdleConv /\ IdleFetch /\ IdleRepl

Writing(kind) == pc = "write" /\ wr.kind = kind

\* the value of `successfulFields.length > 0`
ReturnsTrue(successfulFields) == TRUE
SomeFieldWritten(successfulFields) == Len(successfulFields) > 0

\* the writer returns r
WriterReturns(w, r) ==
    /\ wr' = [w EXCEPT !.ret = r]
    /\ pc' = "written"

LogEntry(fieldIndex, outcome, pause) ==
    [field |-> fieldIndex, outcome |-> outcome, pause |-> pause]

\* `while (retries <= MAX_RETRIES)`: the retry loop of one field goes round again
RetryAllowed(retries) == retries <= MAX_RETRIES

\* `throw fieldError` of the catch block, taken when `retries > MAX_RETRIES`;
\* the outer catch returns false
LoopNeverRethrows(retries) == FALSE
Rethrows(retries) == retries > MAX_RETRIES

\* `retryDelay = 3000 * retries`, in seconds
retryDelayFlat(retries) == 3
retryDelay(retries) == 3 * retries

\* the retry loop of field w.fieldIndex is left: `fieldIndex++`, and after the
\* last field `return successfulFields.length > 0`
AfterField(w) ==
    LET v == [w EXCEPT !.fieldIndex = @ + 1, !.retries = 0]
    IN  IF v.fieldIndex < Len(v.audioChunks)
        THEN wr' = v /\ pc' = pc
        ELSE WriterReturns(v, SomeFieldWritten(v.successfulFields))

\* the catch block is done after failure number w.retries of the field: the
\* loop tries the field again, or the error is rethrown
AfterFailure(w) ==
    IF Rethrows(w.retries) THEN WriterReturns(w, FALSE)
    ELSE IF RetryAllowed(w.retries) THEN wr' = w /\ pc' = pc
    ELSE AfterField(w)

\* no audio chunks: the field loop is not entered, `return successfulFields.length > 0`
WriteNoFields ==
    /\ Writing("content64") /\ wr.audioChunks = <<>>
    /\ WriterReturns(wr, SomeFieldWritten(wr.successfulFields))
    /\ UNCHANGED <<provVars, failBudget, calls, convVars, fetchVars, replVars, sp, wf>>

\* `await notion.pages.update({page_id, properties: {[fieldName]: {rich_text:
\* textChunks}}})` succeeds: `successfulFields.push(fieldName); break`, then the
\* next field, or after the last one `return successfulFields.length > 0`
UpdateField ==
    /\ Writing("content64") /\ wr.fieldIndex < Len(wr.audioChunks)
    /\ LET k == wr.fieldIndex
           w == [wr EXCEPT
                   !.successfulFields = Append(@, k),
                   !.stored = Append(@, [field |-> k,
                                         rich_text |-> textChunks(k, wr.audioChunks[k + 1])]),
                   !.log = Append(@, LogEntry(k, "ok", 0))]
       IN  AfterField(w)
    /\ UNCHANGED <<provVars, failBudget, calls, convVars, fetchVars, replVars, sp, wf>>

CanFail == wr.budget > 0

\* the update throws with 'internal_server_error' in the message: `retries++`;
\* `if (retries <= MAX_RETRIES)` wait 3000 * retries and try the field again,
\* else rethrow to the outer catch, which returns false. (The branch guarded by
\* `fieldIndex === 12 && retries === 0` comes after `retries++` and is never taken.)
UpdateFieldInternalError ==
    /\ Writing("content64") /\ wr.fieldIndex < Len(wr.audioChunks) /\ CanFail
    /\ LET r == wr.retries + 1
           w == [wr EXCEPT
                   !.retries = r,
                   !.budget = @ - 1,
                   !.log = Append(@, LogEntry(wr.fieldIndex, "internal_server_error",
                                              IF r <= MAX_RETRIES THEN retryDelay(r) ELSE 0))]
       IN  AfterFailure(w)
    /\ UNCHANGED <<provVars, failBudget, calls, convVars, fetchVars, replVars, sp, wf>>

\* the update throws with 'validation_error' or 'path.not_found' in the message:
\* `return successfulFields.length > 0`
UpdateFieldPermanentError ==
    /\ Writing("content64") /\ wr.fieldIndex < Len(wr.audioChunks) /\ CanFail
    /\ \E e \in {"validation_error", "path.not_found"} :
         WriterReturns([wr EXCEPT !.retries = @ + 1,
                                  !.budget = @ - 1,
                                  !.log = Append(@, LogEntry(wr.fieldIndex, e, 0))],
                       SomeFieldWritten(wr.successfulFields))
    /\ UNCHANGED <<provVars, failBudget, calls, convVars, fetchVars, replVars, sp, wf>>

\* the update throws with another message: `if (retries > MAX_RETRIES) throw`,
\* else the loop tries the field again at once
UpdateFieldOtherError ==
    /\ Writing("content64") /\ wr.fieldIndex < Len(wr.audioChunks) /\ CanFail
    /\ LET r == wr.retries + 1
           w == [wr EXCEPT !.retries = r,
                           !.budget = @ - 1,
                           !.log = Append(@, LogEntry(wr.fieldIndex, "other", 0))]
       IN  AfterFailure(w)
    /\ UNCHANGED <<provVars, failBudget, calls, convVars, fetchVars, replVars, sp, wf>>

\* updateBlogWithContent / single-field updatePageWithAudio: one page update with
\* all the spans, `return true`
WriteOnce ==
    /\ pc = "write" /\ wr.kind \in {"blog", "single"}
    /\ WriterReturns([wr EXCEPT
                        !.successfulFields = <<0>>,
                        !.stored = <<[field |-> 0, rich_text |-> OneFieldChunks(wr.payload)]>>,
                        !.log = Append(@, LogEntry(0, "ok", 0))],
                     TRUE)
    /\ UNCHANGED <<provVars, failBudget, calls, convVars, fetchVars, replVars, sp, wf>>

\* ... the update throws: `catch (error) { ...; return false }`
WriteOnceFail ==
    /\ pc = "write" /\ wr.kind \in {"blog", "single"} /\ CanFail
    /\ \E e \in UpdateErrors :
         WriterReturns([wr EXCEPT !.budget = @ - 1,
                                  !.log = Append(@, LogEntry(0, e, 0))],
                       FALSE)
    /\ UNCHANGED <<provVars, failBudget, calls, convVars, fetchVars, replVars, sp, wf>>

NextWrite ==
    \/ WriteNoFields \/ UpdateField
    \/ UpdateFieldInternalError \/ UpdateFieldPermanentError \/ UpdateFieldOtherError
    \/ WriteOnce \/ WriteOnceFail

SpecWrite == InitWrite /\ [][NextWrite]_vars

\* ------------------------------------------------- claims about the storage writers

RECURSIVE Flatten(_)
Flatten(ss) == IF ss = <<>> THEN <<>> ELSE Head(ss) \o Flatten(Tail(ss))

\* the pieces a writer emitted, in index order: fields in field order, within
\* each field its spans in order
Emitted ==
    Flatten([f \in 1..Len(wr.stored) |->
               Flatten([k \in 1..Len(wr.stored[f].rich_text) |->
                          wr.stored[f].rich_text[k].content])])

NoUpdateFailed == \A n \in 1..Len(wr.log) : wr.log[n].outcome = "ok"

\* C12: when a writer has returned and none of its page updates failed, the
\* pieces it emitted, concatenated in index order, are the payload.
C12_PiecesRebuildPayload ==
    (pc = "written" /\ NoUpdateFailed) => Emitted = wr.payload

\* C12, for the writers of one field and for Content64 payloads that end before
\* field index MagicIndex: there the claim holds of the code.
C12_HoldsBelowMagicIndex ==
    (pc = "written" /\ NoUpdateFailed /\ Len(wr.audioChunks) <= MagicIndex)
        => Emitted = wr.payload

PermanentErrors == {"validation_error", "path.not_found"}

CallsOfField(k) == SelectSeq(wr.log, LAMBDA e : e.field = k)

StoredFields == {wr.stored[f].field : f \in 1..Len(wr.stored)}

\* C24: the Content64 writer's page updates go up the field sequence from the
\* first field: an update is for the field of the update before it or for the
\* next one, for the next one exactly when the update before it succeeded (so a
\* field is attempted only after the one before it was written, and never again
\* once it was written or a later one attempted), and the fields written are
\* at every moment the first fields of the sequence.
C24_FieldsInOrder ==
    wr.kind = "content64" =>
       /\ wr.log # <<>> => wr.log[1].field = 0
       /\ \A n \in 2..Len(wr.log) :
             wr.log[n].field =
                IF wr.log[n - 1].outcome = "ok" THEN wr.log[n - 1].field + 1
                ELSE wr.log[n - 1].field
       /\ \A m, n \in 1..Len(wr.log) : m < n => wr.log[m].field <= wr.log[n].field
       /\ StoredFields = 0..(Len(wr.stored) - 1)
       /\ \A f \in 1..Len(wr.stored) : wr.stored[f].field = f - 1

\* all the fields of a payload of MaxFields fields were written, the second
\* one after failed updates
C24_Witness ==
    /\ pc = "written" /\ wr.kind = "content64"
    /\ Len(wr.audioChunks) = MaxFields
    /\ StoredFields = 0..(MaxFields - 1)
    /\ Len(CallsOfField(1)) >= 3

\* the updates of field k that failed with 'internal_server_error'
InternalErrorsOf(k) ==
    SelectSeq(CallsOfField(k), LAMBDA e : e.outcome = "internal_server_error")

C26_StoredIsPrefix ==
    (pc = "written" /\ wr.kind = "content64") =>
       /\ IsPrefix(Emitted, wr.payload)
       /\ (Len(wr.stored) = Len(wr.audioChunks)) => Emitted = wr.payload

\* C26, for payloads that end before field index MagicIndex: there the claim
\* holds of the code, whichever updates failed.
C26_HoldsBelowMagicIndex ==
    (pc = "written" /\ wr.kind = "content64" /\ Len(wr.audioChunks) <= MagicIndex) =>
       /\ IsPrefix(Emitted, wr.payload)
       /\ (Len(wr.stored) = Len(wr.audioChunks)) => Emitted = wr.payload

\* C28: the Content64 writer returns true exactly when it wrote a field, so
\* after a return of false no field of the page was written by the call.
C28_TrueIffFieldWritten ==
    (pc = "written" /\ wr.kind = "content64") => (wr.ret = (wr.stored # <<>>))

\* C28, on the exits through a return statement (all fields tried, or a
\* permanent error): there the claim holds of the code.
C28_HoldsUnlessRethrown ==
    (pc = "written" /\ wr.kind = "content64" /\ ~Rethrows(wr.retries))
        => (wr.ret = (wr.stored # <<>>))

\* ------------------------------------------------- splitTextIntoChunks
\* Two versions: TTSCloudflareWorkflow.splitTextIntoChunks ("workflow": sentence
\* end, paragraph break, space) and the Content64 converter's ("content64":
\* sentence end, sentence end in a wider window, space; it also counts '\r' as
\* white space, a character the model's texts do not hold). Positions are the
\* code's, counted from 0.

Max(S) == CHOOSE x \in S : \A y \in S : y <= x

At(text, i) == text[i + 1]
Substring(text, from, to) == SubSeq(text, from + 1, to)

SplitChars == {"x", ".", " ", "\n"}
WhiteSpace == {" ", "\n"}

\* `char === '.' || char === '!' || char === '?'`, followed by the end of the
\* text, a space or a line break
IsSentenceEnd(text, i) ==
    /\ At(text, i) \in {".", "!", "?"}
    /\ i = Len(text) - 1 \/ At(text, i + 1) \in WhiteSpace

\* `for (let i = chunkEnd - 1; i > searchStart; i--) { ... bestBreak = i + 1; break }`,
\* -1 when the loop finds none
bestSentenceEnd(text, searchStart, chunkEnd) ==
    LET found == {i \in (searchStart + 1)..(chunkEnd - 1) : IsSentenceEnd(text, i)}
    IN  IF found = {} THEN -1 ELSE Max(found) + 1

\* `text.lastIndexOf(' ', chunkEnd)` and `text.lastIndexOf('\n\n', chunkEnd)`:
\* the last occurrence that starts at or before fromIndex, -1 when there is none
lastIndexAnywhere(text, str, fromIndex) ==
    LET found == {i \in 0..(Len(text) - Len(str)) :
                    Substring(text, i, i + Len(str)) = str}
    IN  IF found = {} THEN -1 ELSE Max(found)
lastIndexOf(text, str, fromIndex) ==
    LET found == {i \in 0..Min(fromIndex, Len(text) - Len(str)) :
                    Substring(text, i, i + Len(str)) = str}
    IN  IF found = {} THEN -1 ELSE Max(found)

\* the cut for a chunk that starts at currentPosition when more than maxLength
\* characters remain
ChunkEnd(variant, text, currentPosition, maxLength) ==
    LET chunkEnd  == Min(currentPosition + maxLength, Len(text))
        near      == bestSentenceEnd(text, Max({currentPosition, chunkEnd - SentenceWindow}),
                                     chunkEnd)
        far       == bestSentenceEnd(text, Max({currentPosition, chunkEnd - WideWindow}),
                                     chunkEnd)
        paragraphBreak == lastIndexOf(text, <<"\n", "\n">>, chunkEnd)
        lastSpace == lastIndexOf(text, <<" ">>, chunkEnd)
    IN  IF ~(chunkEnd < Len(text)) THEN chunkEnd
        ELSE IF near > currentPosition THEN near
        ELSE IF variant = "content64" /\ far > currentPosition THEN far
        ELSE IF variant = "workflow" /\ paragraphBreak > currentPosition THEN paragraphBreak
        ELSE IF lastSpace > currentPosition THEN lastSpace
        ELSE chunkEnd

\* `.trim()`
RECURSIVE TrimStart(_)
TrimStart(str) ==
    IF str # <<>> /\ Head(str) \in WhiteSpace THEN TrimStart(Tail(str)) ELSE str
RECURSIVE TrimEnd(_)
TrimEnd(str) ==
    IF str # <<>> /\ str[Len(str)] \in WhiteSpace
    THEN TrimEnd(SubSeq(str, 1, Len(str) - 1)) ELSE str
Trim(str) == TrimEnd(TrimStart(str))

\* `while (currentPosition < text.length && (text[currentPosition] === ' ' || ...))
\*      currentPosition++`
SkipsOneMore(text, pos) == Min(pos + 1, Len(text))
RECURSIVE SkipWhitespace(_, _)
SkipWhitespace(text, pos) ==
    IF pos < Len(text) /\ At(text, pos) \in WhiteSpace
    THEN SkipWhitespace(text, pos + 1) ELSE pos

SplitVariants == {"workflow", "content64"}

InitSplit ==
    /\ \E v \in SplitVariants, t \in StringsOver(SplitChars, MaxTextLen), m \in 1..MaxChunk :
         sp = [variant |-> v, text |-> t, maxLength |-> m, chunks |-> <<>>,
               currentPosition |-> 0, cuts |-> <<>>]
    /\ pc = "split"
    /\ wr = <<>> /\ wf = <<>>
    /\ mode = "checkbox"
    /\ world = MkWorld(RawWorlds[1], mode)
    /\ world0 = world
    /\ batch = PageSize
    /\ failBudget = 0
    /\ calls = <<>>
    /\ IdleConv /\ IdleFetch /\ IdleRepl

\* `if (text.length <= maxLength) return [text]`
SplitShort ==
    /\ pc = "split" /\ Len(sp.text) <= sp.maxLength
    /\ sp' = [sp EXCEPT !.chunks = <<sp.text>>]
    /\ pc' = "splitdone"
    /\ UNCHANGED <<provVars, failBudget, calls, convVars, fetchVars, replVars, wr, wf>>

\* one pass of `while (currentPosition < text.length)`
SplitStep ==
    /\ pc = "split" /\ Len(sp.text) > sp.maxLength
    /\ sp.currentPosition < Len(sp.text)
    /\ LET chunkEnd == ChunkEnd(sp.variant, sp.text, sp.currentPosition, sp.maxLength)
           chunk    == Trim(Substring(sp.text, sp.currentPosition, chunkEnd))
       IN  sp' = [sp EXCEPT
                    !.chunks = IF chunk # <<>> THEN Append(@, chunk) ELSE @,
                    !.cuts = Append(@, [from |-> sp.currentPosition, to |-> chunkEnd]),
                    !.currentPosition = SkipWhitespace(sp.text, chunkEnd)]
    /\ UNCHANGED <<provVars, failBudget, calls, pc, convVars, fetchVars, replVars, wr, wf>>

\* the loop ends: `return chunks`
SplitReturn ==
    /\ pc = "split" /\ Len(sp.text) > sp.maxLength
    /\ ~(sp.currentPosition < Len(sp.text))
    /\ pc' = "splitdone"
    /\ UNCHANGED <<provVars, failBudget, calls, convVars, fetchVars, replVars, jobVars>>

NextSplit == SplitShort \/ SplitStep \/ SplitReturn

SpecSplit == InitSplit /\ [][NextSplit]_vars

\* ------------------------------------------------- claims about splitTextIntoChunks

SplitDone == pc = "splitdone"
Long == Len(sp.text) > sp.maxLength

\* C13 as claimed: the chunks, concatenated in index order, are the text.
C13_ConcatIsText == SplitDone => Flatten(sp.chunks) = sp.text

\* text is the chunks in order with nothing but white space before, between and
\* after them
RECURSIVE ChunksWithGaps(_, _)
ChunksWithGaps(text, chunks) ==
    IF chunks = <<>> THEN TrimStart(text) = <<>>
    ELSE LET rest == TrimStart(text)
         IN  /\ IsPrefix(Head(chunks), rest)
             /\ ChunksWithGaps(SubSeq(rest, Len(Head(chunks)) + 1, Len(rest)), Tail(chunks))

\* C13: a text no longer than maxLength comes back as the one chunk it is; of a
\* longer text the chunks are non-empty, trimmed pieces of the text in text
\* order, and what the text has outside them is white space only.
C13_ChunksAreTextWithoutGaps ==
    SplitDone =>
        IF ~Long THEN sp.chunks = <<sp.text>>
        ELSE /\ \A n \in 1..Len(sp.chunks) :
                  sp.chunks[n] # <<>> /\ Trim(sp.chunks[n]) = sp.chunks[n]
             /\ ChunksWithGaps(sp.text, sp.chunks)

\* a long text with white space at a cut was split into several chunks
C13_Witness ==
    /\ SplitDone /\ Long /\ Len(sp.chunks) >= 2
    /\ Flatten(sp.chunks) # sp.text

\* C14: no chunk is longer than maxLength; every pass of the loop moves the scan
\* position forward and never past the end of the text, so there are at most
\* text.length passes before the loop condition fails and the function returns.
C14_ChunksWithinLimit ==
    /\ \A n \in 1..Len(sp.chunks) : Len(sp.chunks[n]) <= sp.maxLength
    /\ \A n \in 1..Len(sp.cuts) :
          /\ sp.cuts[n].from < sp.cuts[n].to
          /\ sp.cuts[n].to <= Len(sp.text)
          /\ n < Len(sp.cuts) => sp.cuts[n].to <= sp.cuts[n + 1].from
    /\ sp.cuts # <<>> => sp.cuts[Len(sp.cuts)].to <= sp.currentPosition
    /\ sp.currentPosition <= Len(sp.text)
    /\ Len(sp.cuts) <= Len(sp.text)

\* a long text was cut in the middle of a word and at a space, and the split returned
C14_Witness ==
    /\ SplitDone /\ Long /\ Len(sp.cuts) >= 3
    /\ \E n \in 1..Len(sp.cuts) : sp.cuts[n].to = sp.cuts[n].from + sp.maxLength
    /\ \E n \in 1..Len(sp.cuts) : sp.cuts[n].to < sp.cuts[n].from + sp.maxLength

\* the cut the claim describes for a chunk starting at from, more than maxLength
\* characters remaining: after the last sentence end in the window before the
\* limit, else at the last paragraph break, else at the last white space, else
\* at the limit
ClaimedCut(text, from, maxLength) ==
    LET limit == from + maxLength
        sentence == bestSentenceEnd(text, Max({from, limit - SentenceWindow}), limit)
        breaks == {i \in (from + 1)..limit :
                     i + 2 <= Len(text) /\ Substring(text, i, i + 2) = <<"\n", "\n">>}
        blanks == {i \in (from + 1)..limit : i < Len(text) /\ At(text, i) \in WhiteSpace}
    IN  IF sentence > from THEN sentence
        ELSE IF breaks # {} THEN Max(breaks)
        ELSE IF blanks # {} THEN Max(blanks)
        ELSE limit

\* C15: every cut made while more than maxLength characters remain is the one
\* the priority order gives: sentence end in the window, else paragraph break,
\* else last white space, else the hard limit.
C15_CutPriority ==
    \A n \in 1..Len(sp.cuts) :
       sp.cuts[n].from + sp.maxLength < Len(sp.text) =>
          sp.cuts[n].to = ClaimedCut(sp.text, sp.cuts[n].from, sp.maxLength)

\* ------------------------------------------------- the batch runs over the blog database
\* TTSCloudflareWorkflow.run with processPage ("workflow"), the Content64
\* converter's main ("content64") and clearContent64Fields ("cleanup"), each a
\* loop over the pages a database query returns. A page is what the tools read
\* of it: whether its AudioLink url is set, its Content64, Content64_2, ...
\* fields (fields[1] is Content64), and how much text it has. Two tool runs
\* follow each other on the same database. NotebookLMWorkflow's
\* pullContentForNotebookLM ("notebooklm") is a loop of the same kind that writes
\* files and a manifest; there the page's link stands for its audio or video link.

FlowPlans == {<<"workflow", "workflow">>, <<"content64", "content64">>,
              <<"cleanup", "content64">>, <<"notebooklm", "workflow">>}

Data == <<"d">>

\* the fields as updatePageWithAudio leaves them: the first k written (at the
\* start none, one or all of them)
FieldsFilled(k) == [f \in 1..MaxFields |-> IF f <= k THEN Data ELSE <<>>]

BlogPage(audioLink, k, content) ==
    [audioLink |-> audioLink, fields |-> FieldsFilled(k), content |-> content]

BlogPages(tool) ==
    IF tool \in {"workflow", "notebooklm"}
    THEN {BlogPage(a, 0, c) : a \in BOOLEAN, c \in {"empty", "short", "long"}}
    ELSE {BlogPage(FALSE, k, c) : k \in {0, 1, MaxFields}, c \in {"empty", "long"}}

ZeroStats ==
    [processed |-> 0, skipped |-> 0, failed |-> 0, empty |-> 0, cleared |-> 0, errors |-> 0,
     exported |-> 0]

InitFlow ==
    /\ \E pl \in FlowPlans, b \in 0..MaxFail :
         \E ps \in [1..NumBlogPages -> BlogPages(pl[1])],
            fr \in (IF pl[1] = "notebooklm" THEN BOOLEAN ELSE {FALSE}) :
            wf = [plan |-> pl, run |-> 1, pages |-> ps, batch |-> <<>>, i |-> 1,
                  k |-> 0, fieldsCleared |-> 0, chunks |-> 0, effects |-> <<>>,
                  stats |-> ZeroStats, hist |-> <<>>, budget |-> b,
                  forceRefresh |-> fr, manifests |-> <<>>]
    /\ pc = "query"
    /\ sp = <<>> /\ wr = <<>>
    /\ mode = "checkbox"
    /\ world = MkWorld(RawWorlds[1], mode)
    /\ world0 = world
    /\ batch = PageSize
    /\ failBudget = 0
    /\ calls = <<>>
    /\ IdleConv /\ IdleFetch /\ IdleRepl

Tool == wf.plan[wf.run]
AtPage(tool) == pc = "page" /\ Tool = tool /\ wf.i <= Len(wf.batch)
Cur == wf.batch[wf.i]
FlowFrame == <<provVars, failBudget, calls, convVars, fetchVars, replVars, sp, wr>>

\* the loop is done with the page: the counter c went up by one ("none": no
\* counter did)
PageDone(w, c) ==
    /\ wf' = [w EXCEPT
                !.hist = Append(@, [run |-> w.run, tool |-> w.plan[w.run], page |-> w.i,
                                    before |-> w.batch[w.i], counted |-> c,
                                    effects |-> w.effects]),
                !.stats = IF c = "none" THEN @ ELSE [@ EXCEPT ![c] = @ + 1],
                !.i = @ + 1, !.k = 0, !.fieldsCleared = 0, !.chunks = 0,
                !.effects = <<>>]
    /\ pc' = "page"

Effect(w, op) == [w EXCEPT !.effects = Append(@, op)]
Spent(w) == [w EXCEPT !.budget = @ - 1]

\* `response = await notion.databases.query({database_id, start_cursor, page_size})`:
\* the pages as they are now, in one response
FlowQuery ==
    /\ pc = "query"
    /\ wf' = [wf EXCEPT !.batch = wf.pages, !.i = 1]
    /\ pc' = "page"
    /\ UNCHANGED FlowFrame

\* the query throws: the tool's catch prints the error; the workflow and the
\* converter exit with code 1
FlowQueryFail ==
    /\ pc = "query" /\ wf.budget > 0
    /\ wf' = Spent(wf)
    /\ pc' = "flowdone"
    /\ UNCHANGED FlowFrame

\* processPage: `if (metadata.audioLink) { this.stats.skipped++; return }`
FlowSkipAudioLink ==
    /\ AtPage("workflow") /\ Cur.audioLink
    /\ PageDone(wf, "skipped")
    /\ UNCHANGED FlowFrame

\* processPage: `if (!content || content.trim().length < 100) { this.stats.skipped++; return }`
FlowTooShort ==
    /\ AtPage("workflow") /\ ~Cur.audioLink /\ Cur.content \in {"empty", "short"}
    /\ PageDone(wf, "skipped")
    /\ UNCHANGED FlowFrame

\* hasExistingAudio: the trimmed text of Content64, else of Content64_2, is not empty
hasExistingAudio(page) ==
    \/ Len(Trim(page.fields[1])) > 0
    \/ Len(Trim(page.fields[2])) > 0

\* main: `if (await hasExistingAudio(page)) { skippedCount++; continue }`
FlowSkipExisting ==
    /\ AtPage("content64") /\ hasExistingAudio(Cur)
    /\ PageDone(wf, "skipped")
    /\ UNCHANGED FlowFrame

\* main: `if (!content || content.trim().length === 0) { emptyContentCount++; continue }`
FlowEmptyContent ==
    /\ AtPage("content64") /\ ~hasExistingAudio(Cur) /\ Cur.content = "empty"
    /\ PageDone(wf, "empty")
    /\ UNCHANGED FlowFrame

\* the page goes on to speech synthesis
ToSpeech ==
    \/ AtPage("workflow") /\ ~Cur.audioLink /\ Cur.content = "long"
    \/ AtPage("content64") /\ ~hasExistingAudio(Cur) /\ Cur.content # "empty"

\* convertToSpeech / convertTextToSpeech: `openai.audio.speech.create(...)` for the
\* text's chunks succeeds; the Content64 converter cuts the audio into 1 or more fields
FlowSpeech ==
    /\ ToSpeech
    /\ \E n \in 1..MaxFields : wf' = [Effect(wf, "speech") EXCEPT !.chunks = n]
    /\ pc' = IF Tool = "workflow" THEN "upload" ELSE "update"
    /\ UNCHANGED FlowFrame

\* the speech request fails (in the converter: for the last time): processPage's
\* catch does `this.stats.failed++`, main gets null and does `failedCount++`
FlowSpeechFail ==
    /\ ToSpeech /\ wf.budget > 0
    /\ PageDone(Spent(Effect(wf, "speech")), "failed")
    /\ UNCHANGED FlowFrame

\* uploadToCloudflare: the key exists already and its url is used, or the audio
\* is uploaded
FlowUpload ==
    /\ pc = "upload"
    /\ \/ wf' = wf
       \/ wf' = Effect(wf, "upload")
    /\ pc' = "update"
    /\ UNCHANGED FlowFrame

\* checkIfExists or uploadAudio throws: processPage's catch, `this.stats.failed++`
FlowUploadFail ==
    /\ pc = "upload" /\ wf.budget > 0
    /\ PageDone(Spent(Effect(wf, "upload")), "failed")
    /\ UNCHANGED FlowFrame

\* updateNotionWithAudioLink returns true: the page's AudioLink is set,
\* `this.stats.processed++`
FlowUpdateLink ==
    /\ pc = "update" /\ Tool = "workflow"
    /\ PageDone([Effect(wf, "update") EXCEPT !.pages[wf.i].audioLink = TRUE], "processed")
    /\ UNCHANGED FlowFrame

\* processPage: `if (updated) { this.stats.processed++ } else { this.stats.failed++ }`,
\* the counter of the else branch
LinkNotUpdatedUncounted == "none"
LinkNotUpdatedCounter == "failed"

\* both page updates ('AudioLink', 'audiolink') throw: it returns false,
\* `this.stats.failed++`
FlowUpdateLinkFail ==
    /\ pc = "update" /\ Tool = "workflow" /\ wf.budget > 0
    /\ PageDone(Spent(Effect(wf, "update")), LinkNotUpdatedCounter)
    /\ UNCHANGED FlowFrame

\* what updatePageWithAudio can leave of n fields: all written and true; the
\* first j written and then a permanent error (true when j > 0) or an error
\* thrown to its catch (false)
WriterOutcomes(n) ==
    {[written |-> n, ret |-> TRUE, failed |-> FALSE]}
      \cup {[written |-> j, ret |-> SomeFieldWritten([f \in 1..j |-> f]), failed |-> TRUE] :
               j \in 0..(n - 1)}
      \cup {[written |-> j, ret |-> FALSE, failed |-> TRUE] : j \in 0..(n - 1)}

\* main: `success = await updatePageWithAudio(page.id, audioChunks)`, then
\* `processedCount++` or `failedCount++`
FlowUpdateFields ==
    /\ pc = "update" /\ Tool = "content64"
    /\ \E o \in WriterOutcomes(wf.chunks) :
         /\ o.failed => wf.budget > 0
         /\ PageDone([Effect(wf, "update") EXCEPT
                        !.budget = IF o.failed THEN @ - 1 ELSE @,
                        !.pages[wf.i].fields =
                            [f \in 1..MaxFields |-> IF f <= o.written THEN Data ELSE @[f]]],
                     IF o.ret THEN "processed" ELSE "failed")
    /\ UNCHANGED FlowFrame

\* clearContent64Fields: `field.rich_text.length > 0` for one of Content64,
\* Content64_2, ...
hasContent64Data(page) == \E f \in 1..MaxFields : Len(page.fields[f]) > 0

\* `if (!hasContent64Data) { skippedPages++; continue }`
FlowClearSkip ==
    /\ AtPage("cleanup") /\ ~hasContent64Data(Cur)
    /\ PageDone(wf, "skipped")
    /\ UNCHANGED FlowFrame

\* one pass of `for (const fieldName of fieldsToCheck)`: a field that holds text
\* is cleared with a page update, `fieldsCleared++`; an empty field is passed over
FlowClearField ==
    /\ AtPage("cleanup") /\ hasContent64Data(Cur) /\ wf.k < MaxFields
    /\ wf' = IF Len(Cur.fields[wf.k + 1]) > 0
             THEN [Effect(wf, "update") EXCEPT !.pages[wf.i].fields[wf.k + 1] = <<>>,
                                               !.fieldsCleared = @ + 1, !.k = @ + 1]
             ELSE [wf EXCEPT !.k = @ + 1]
    /\ pc' = pc
    /\ UNCHANGED FlowFrame

\* the update that clears the field throws: `catch (error) { fieldsFailed++ }`,
\* the field keeps its text and the loop goes on
FlowClearFieldFail ==
    /\ AtPage("cleanup") /\ hasContent64Data(Cur) /\ wf.k < MaxFields
    /\ Len(Cur.fields[wf.k + 1]) > 0 /\ wf.budget > 0
    /\ wf' = [Spent(Effect(wf, "update")) EXCEPT !.k = @ + 1, !.stats.errors = @ + 1]
    /\ pc' = pc
    /\ UNCHANGED FlowFrame

\* after the fields: `if (fieldsCleared > 0) clearedPages++`; the failed fields
\* are in errorCount
FlowClearDone ==
    /\ AtPage("cleanup") /\ hasContent64Data(Cur) /\ wf.k = MaxFields
    /\ PageDone(wf, IF wf.fieldsCleared > 0 THEN "cleared" ELSE "none")
    /\ UNCHANGED FlowFrame

\* pullContentForNotebookLM: `hasMedia: !!(videoLink || audioLink)`
hasMedia(page) == page.audioLink

\* `if (metadata.hasMedia && !forceRefresh) { skippedCount++; continue }`
FlowSkipMedia ==
    /\ AtPage("notebooklm") /\ hasMedia(Cur) /\ ~wf.forceRefresh
    /\ PageDone(wf, "skipped")
    /\ UNCHANGED FlowFrame

ToExport == AtPage("notebooklm") /\ (hasMedia(Cur) => wf.forceRefresh)

\* `if (!content || content.trim().length < 100) { skippedCount++; continue }`
FlowExportTooShort ==
    /\ ToExport /\ Cur.content \in {"empty", "short"}
    /\ PageDone(wf, "skipped")
    /\ UNCHANGED FlowFrame

\* the markdown and metadata files are written: `exportedPages.push(metadata)`
FlowExport ==
    /\ ToExport /\ Cur.content = "long"
    /\ PageDone(Effect(wf, "file"), "exported")
    /\ UNCHANGED FlowFrame

\* extracting or writing throws: `catch (error) { errorCount++ }`
FlowExportFail ==
    /\ ToExport /\ wf.budget > 0
    /\ PageDone(Spent(wf), "errors")
    /\ UNCHANGED FlowFrame

\* `manifest = { totalPages: pages.length, exported: exportedPages.length,
\*               skipped: skippedCount, errors: errorCount, ... }`
Manifest(w) ==
    [totalPages |-> Len(w.batch), exported |-> w.stats.exported,
     skipped |-> w.stats.skipped, errors |-> w.stats.errors]

\* the pages are done: the summary is printed (pullContentForNotebookLM writes
\* its manifest); the next tool run starts
FlowEnd ==
    /\ pc = "page" /\ wf.i > Len(wf.batch)
    /\ LET w == IF Tool = "notebooklm"
                THEN [wf EXCEPT !.manifests = Append(@, Manifest(wf))]
                ELSE wf
       IN  IF wf.run < Len(wf.plan)
           THEN /\ wf' = [w EXCEPT !.run = @ + 1, !.batch = <<>>, !.i = 1,
                                   !.stats = ZeroStats]
                /\ pc' = "query"
           ELSE /\ wf' = w
                /\ pc' = "flowdone"
    /\ UNCHANGED FlowFrame

NextFlow ==
    \/ FlowQuery \/ FlowQueryFail
    \/ FlowSkipAudioLink \/ FlowTooShort \/ FlowSkipExisting \/ FlowEmptyContent
    \/ FlowSpeech \/ FlowSpeechFail \/ FlowUpload \/ FlowUploadFail
    \/ FlowUpdateLink \/ FlowUpdateLinkFail \/ FlowUpdateFields
    \/ FlowClearSkip \/ FlowClearField \/ FlowClearFieldFail \/ FlowClearDone
    \/ FlowSkipMedia \/ FlowExportTooShort \/ FlowExport \/ FlowExportFail
    \/ FlowEnd

SpecFlow == InitFlow /\ [][NextFlow]_vars

\* ------------------------------------------------- claims about the batch runs

\* the page carries the output marker the claim names for the tool
Marked(tool, page) ==
    \/ tool = "workflow" /\ page.audioLink
    \/ tool = "content64" /\ \E f \in 1..MaxFields : page.fields[f] # <<>>

\* C18: a page that carries the tool's output marker when the tool comes to it
\* causes no speech request, no upload and no page update, and is counted as
\* skipped.
C18_MarkedPageSkipped ==
    \A n \in 1..Len(wf.hist) :
       Marked(wf.hist[n].tool, wf.hist[n].before) =>
          wf.hist[n].effects = <<>> /\ wf.hist[n].counted = "skipped"

\* C18, for the workflow's AudioLink and for the converter's Content64 and
\* Content64_2: there the claim holds of the code.
C18_HoldsForFirstTwoFields ==
    \A n \in 1..Len(wf.hist) :
       (\/ wf.hist[n].tool = "workflow" /\ wf.hist[n].before.audioLink
        \/ wf.hist[n].tool = "content64" /\
              \E f \in 1..2 : wf.hist[n].before.fields[f] # <<>>)
          => wf.hist[n].effects = <<>> /\ wf.hist[n].counted = "skipped"

\* the processPage calls that returned in the run going on
CallsSoFar == Cardinality({n \in 1..Len(wf.hist) : wf.hist[n].run = wf.run})

\* C27: between the processPage calls of the workflow, processed + skipped +
\* failed is the number of calls made in the run, each call having raised
\* exactly one of the three; and every manifest pullContentForNotebookLM wrote
\* has exported + skipped + errors = totalPages.
C27_EveryPageCountedOnce ==
    /\ (pc \in {"page", "flowdone"} /\ Tool = "workflow") =>
          /\ wf.stats.processed + wf.stats.skipped + wf.stats.failed = CallsSoFar
          /\ \A n \in 1..Len(wf.hist) :
                wf.hist[n].tool = "workflow" =>
                   wf.hist[n].counted \in {"processed", "skipped", "failed"}
    /\ \A m \in 1..Len(wf.manifests) :
          wf.manifests[m].exported + wf.manifests[m].skipped + wf.manifests[m].errors
             = wf.manifests[m].totalPages

\* pullContentForNotebookLM wrote the manifest of a run that exported a page and
\* skipped another, and a workflow run after it is over in which one
\* processPage call skipped its page and one failed at the page update, after
\* speech and upload
C27_Witness ==
    /\ Tool = "workflow" /\ pc = "flowdone"
    /\ \E n \in 1..Len(wf.hist) :
          /\ wf.hist[n].tool = "workflow" /\ wf.hist[n].counted = "failed"
          /\ wf.hist[n].effects = <<"speech", "upload", "update">>
    /\ \E n \in 1..Len(wf.hist) :
          wf.hist[n].tool = "workflow" /\ wf.hist[n].counted = "skipped"
    /\ \E m \in 1..Len(wf.manifests) :
          wf.manifests[m].exported > 0 /\ wf.manifests[m].skipped > 0

\* C29: in two runs of the Content64 converter one after the other, a page
\* whose Content64 fields were empty before the first run is skipped by the
\* second as having audio only if the first counted it as processed, and a page
\* the first counted as failed is attempted again by the second.
C29_SkipOnlyAfterSuccess ==
    wf.plan = <<"content64", "content64">> =>
       \A m, n \in 1..Len(wf.hist) :
          (/\ wf.hist[m].run = 1 /\ wf.hist[n].run = 2
           /\ wf.hist[m].page = wf.hist[n].page
           /\ ~Marked("content64", wf.hist[m].before)) =>
             /\ wf.hist[n].counted = "skipped" => wf.hist[m].counted = "processed"
             /\ wf.hist[m].counted = "failed" => wf.hist[n].effects # <<>>

\* C29, for the pages the first run left without text in Content64 and
\* Content64_2 when it counted them as failed: those are attempted again.
C29_HoldsWhenFailureWroteNothing ==
    wf.plan = <<"content64", "content64">> =>
       \A m, n \in 1..Len(wf.hist) :
          (/\ wf.hist[m].run = 1 /\ wf.hist[n].run = 2
           /\ wf.hist[m].page = wf.hist[n].page
           /\ wf.hist[m].counted = "failed"
           /\ ~hasExistingAudio(wf.hist[n].before)) =>
             wf.hist[n].counted # "skipped"
====
